---------------------------- MODULE Spec2Model ----------------------------
(***************************************************************************)
(* Serverless image proxy: the CloudFront viewer-request function          *)
(* (functions/url-rewrite/index.js), the CloudFront origin group of the    *)
(* stack (lib/image-optimization-stack.ts) and the Lambda origin handler   *)
(* (functions/image-processing/index.mjs).                                 *)
(*                                                                         *)
(* A JavaScript string is a sequence of one-character strings, so that     *)
(* split, replace, match, includes, parseInt and the base64 codecs are     *)
(* computed on characters as the code computes them.                       *)
(***************************************************************************)
EXTENDS Integers, Sequences, FiniteSets, TLC

(***************************************************************************)
(* Characters                                                              *)
(***************************************************************************)

\* The printable ASCII characters, in code order from 32 (space) to 126 (~).
\* The backquote (96), which a TLA+ string cannot hold, is written \x96.
Ascii ==
  <<" ","!","\"","#","$","%","&","'","(",")","*","+",",","-",".","/",
    "0","1","2","3","4","5","6","7","8","9",":",";","<","=",">","?","@",
    "A","B","C","D","E","F","G","H","I","J","K","L","M","N","O","P","Q",
    "R","S","T","U","V","W","X","Y","Z","[","\\","]","^","_","\\x96",
    "a","b","c","d","e","f","g","h","i","j","k","l","m","n","o","p","q",
    "r","s","t","u","v","w","x","y","z","{","|","}","~">>

\* A character outside ASCII that a string may hold: e with acute accent
\* (U+00E9), written \u00E9.
E_acute ==
  "\\u00E9"

\* U+FFFD, which a UTF-8 decoder puts where the bytes are not UTF-8.
ReplacementCharacter ==
  "\\uFFFD"

\* String.prototype.charCodeAt for one character of the modelled alphabet.
charCodeAt(c) ==
  IF c = E_acute THEN 233 ELSE 31 + (CHOOSE i \in 1..Len(Ascii) : Ascii[i] = c)

\* One decoded byte as a character (Buffer.toString('utf-8')): printable
\* ASCII maps to itself, a control byte to a character outside the alphabet,
\* written \xNN, and a byte of 128 or more to U+FFFD.  (The bytes of the
\* modelled tokens hold no well-formed multi-byte sequence: a byte of 128 or
\* more is never followed by a continuation byte 128..191 that completes it.)
fromCharCode(n) ==
  IF n >= 32 /\ n <= 126 THEN Ascii[n - 31]
  ELSE IF n >= 128 THEN ReplacementCharacter
  ELSE "\\x" \o ToString(n)

\* String.prototype.toLowerCase, one character.
toLowerChar(c) ==
  IF c \in {Ascii[i] : i \in 34..59} THEN fromCharCode(charCodeAt(c) + 32) ELSE c

toLowerCase(s) ==
  [i \in 1..Len(s) |-> toLowerChar(s[i])]

Digits ==
  {"0","1","2","3","4","5","6","7","8","9"}

(***************************************************************************)
(* Strings                                                                 *)
(***************************************************************************)

\* s.indexOf(p) === 0
StartsWith(s, p) ==
  /\ Len(p) <= Len(s)
  /\ SubSeq(s, 1, Len(p)) = p

\* s.indexOf(p) as a 1-based position, 0 when p does not occur in s.
IndexOf(s, p) ==
  LET hits == {i \in 1..(Len(s) - Len(p) + 1) : SubSeq(s, i, i + Len(p) - 1) = p}
  IN  IF hits = {} THEN 0 ELSE CHOOSE i \in hits : \A j \in hits : i <= j

\* s.includes(p)
Includes(s, p) ==
  IndexOf(s, p) # 0

\* s.split(sep) for a one-character separator: the pieces between the
\* separators, empty pieces included.
RECURSIVE Split(_, _)
Split(s, sep) ==
  LET at == IndexOf(s, <<sep>>)
  IN  IF at = 0 THEN <<s>>
      ELSE <<SubSeq(s, 1, at - 1)>> \o Split(SubSeq(s, at + 1, Len(s)), sep)

\* array.filter(p => p): the non-empty strings of the array, in order.
RECURSIVE FilterNonEmpty(_)
FilterNonEmpty(parts) ==
  IF parts = <<>> THEN <<>>
  ELSE IF Head(parts) = <<>> THEN FilterNonEmpty(Tail(parts))
  ELSE <<Head(parts)>> \o FilterNonEmpty(Tail(parts))

\* array.join(sep)
RECURSIVE Join(_, _)
Join(parts, sep) ==
  IF parts = <<>> THEN <<>>
  ELSE IF Len(parts) = 1 THEN parts[1]
  ELSE parts[1] \o sep \o Join(Tail(parts), sep)

\* s.replace(/c/g, d) for single characters c and d.
ReplaceAll(s, c, d) ==
  [i \in 1..Len(s) |-> IF s[i] = c THEN d ELSE s[i]]

\* s.replace(/=+$/, ''): the string without its trailing '=' characters.
RECURSIVE StripTrailingEq(_)
StripTrailingEq(s) ==
  IF s # <<>> /\ s[Len(s)] = "=" THEN StripTrailingEq(SubSeq(s, 1, Len(s) - 1)) ELSE s

\* The leading characters of s that are in the set cs.
RECURSIVE TakeWhileIn(_, _)
TakeWhileIn(s, cs) ==
  IF s # <<>> /\ Head(s) \in cs THEN <<Head(s)>> \o TakeWhileIn(Tail(s), cs) ELSE <<>>

\* The value of a string of decimal digits.
RECURSIVE DigitsValue(_)
DigitsValue(ds) ==
  IF ds = <<>> THEN 0
  ELSE 10 * DigitsValue(SubSeq(ds, 1, Len(ds) - 1)) + (charCodeAt(ds[Len(ds)]) - 48)

\* parseInt(s): leading spaces are skipped, then an optional sign, then the
\* leading decimal digits; NaN when there is none.  (Inputs of the model
\* carry no 0x prefix.)
parseInt(s) ==
  LET t    == SubSeq(s, Len(TakeWhileIn(s, {" "})) + 1, Len(s))
      neg  == t # <<>> /\ Head(t) = "-"
      u    == IF t # <<>> /\ Head(t) \in {"-", "+"} THEN Tail(t) ELSE t
      ds   == TakeWhileIn(u, Digits)
  IN  IF ds = <<>> THEN [nan |-> TRUE, val |-> 0]
      ELSE [nan |-> FALSE, val |-> IF neg THEN 0 - DigitsValue(ds) ELSE DigitsValue(ds)]

\* The decimal digits of a natural number (Number.prototype.toString).
RECURSIVE NatToString(_)
NatToString(n) ==
  IF n < 10 THEN <<fromCharCode(48 + n)>>
  ELSE NatToString(n \div 10) \o <<fromCharCode(48 + (n % 10))>>

(***************************************************************************)
(* URL codec: base64url in the edge function, base64 in the origin handler *)
(***************************************************************************)

base64chars ==
  <<"A","B","C","D","E","F","G","H","I","J","K","L","M","N","O","P","Q",
    "R","S","T","U","V","W","X","Y","Z","a","b","c","d","e","f","g","h",
    "i","j","k","l","m","n","o","p","q","r","s","t","u","v","w","x","y",
    "z","0","1","2","3","4","5","6","7","8","9","+","/">>

\* base64Encode of the edge function: three characters at a time, the
\* bitmap (a << 16) | (b << 8) | c cut into four 6-bit indices, '=' for the
\* positions past the end of the input.
RECURSIVE base64Encode(_)
base64Encode(str) ==
  IF str = <<>> THEN <<>>
  ELSE
    LET a         == charCodeAt(str[1])
        b         == IF Len(str) >= 2 THEN charCodeAt(str[2]) ELSE 0
        c         == IF Len(str) >= 3 THEN charCodeAt(str[3]) ELSE 0
        charsRead == IF Len(str) >= 3 THEN 3 ELSE Len(str)
        bitmap    == a * 65536 + b * 256 + c
    IN  << base64chars[((bitmap \div 262144) % 64) + 1],
           base64chars[((bitmap \div 4096) % 64) + 1],
           IF charsRead > 1 THEN base64chars[((bitmap \div 64) % 64) + 1] ELSE "=",
           IF charsRead > 2 THEN base64chars[(bitmap % 64) + 1] ELSE "=" >>
        \o base64Encode(SubSeq(str, charsRead + 1, Len(str)))

\* An encoding that leaves the '/' of base64 in the token.
EncodeUrlKeepsSlash(imageUrl) ==
  StripTrailingEq(ReplaceAll(base64Encode(imageUrl), "+", "-"))

\* The edge function's token: base64Encode with '+' -> '-', '/' -> '_' and
\* the trailing '=' removed.
EncodeUrl(imageUrl) ==
  StripTrailingEq(ReplaceAll(ReplaceAll(base64Encode(imageUrl), "+", "-"), "/", "_"))

\* The 6-bit value of a base64 character.
unbase64(c) ==
  (CHOOSE i \in 1..64 : base64chars[i] = c) - 1

\* The characters Buffer.from(s, 'base64') decodes: it stops at the first
\* '=' and skips every character that is not of the alphabet.
RECURSIVE Base64Values(_)
Base64Values(s) ==
  IF s = <<>> \/ Head(s) = "=" THEN <<>>
  ELSE IF \E i \in 1..64 : base64chars[i] = Head(s)
       THEN <<unbase64(Head(s))>> \o Base64Values(Tail(s))
       ELSE Base64Values(Tail(s))

\* The bytes of a sequence of 6-bit values: three bytes per four values, one
\* byte for two trailing values, two for three, none for a single one.
RECURSIVE Base64Bytes(_)
Base64Bytes(v) ==
  IF Len(v) < 2 THEN <<>>
  ELSE
    LET b1 == v[1] * 4 + (v[2] \div 16)
    IN  IF Len(v) = 2 THEN <<b1>>
        ELSE
          LET b2 == (v[2] % 16) * 16 + (v[3] \div 4)
          IN  IF Len(v) = 3 THEN <<b1, b2>>
              ELSE <<b1, b2, (v[3] % 4) * 64 + v[4]>> \o Base64Bytes(SubSeq(v, 5, Len(v)))

\* Buffer.from(base64, 'base64').toString('utf-8')
Base64Decode(s) ==
  LET bytes == Base64Bytes(Base64Values(s))
  IN  [i \in 1..Len(bytes) |-> fromCharCode(bytes[i])]

\* The origin handler's decoding of the path token: '-' -> '+', '_' -> '/',
\* then base64.
DecodeUrl(encodedUrl) ==
  Base64Decode(ReplaceAll(ReplaceAll(encodedUrl, "-", "+"), "_", "/"))

\* A test of the url against ^https?:// alone, in the letter case given.
MatchesHttpPrefix(url) ==
  \/ StartsWith(url, <<"h","t","t","p",":","/","/">>)
  \/ StartsWith(url, <<"h","t","t","p","s",":","/","/">>)

\* url.match(/^https?:\/\/.+/i)
MatchesHttpUrl(url) ==
  LET l == toLowerCase(url)
  IN  \/ StartsWith(l, <<"h","t","t","p",":","/","/">>) /\ Len(l) > 7
      \/ StartsWith(l, <<"h","t","t","p","s",":","/","/">>) /\ Len(l) > 8

(***************************************************************************)
(* new URL(url), as far as validateUrl reads it: protocol and hostname      *)
(***************************************************************************)

\* Characters a host may not contain (WHATWG forbidden host code points of
\* the modelled alphabet); '[' and ']' are listed because IPv6 literals are
\* not among the inputs.
ForbiddenHostChars ==
  {" ", "#", "%", "/", ":", "<", ">", "?", "@", "[", "\\", "]", "^", "|"}

\* The characters of s before the first one that is in cs.
RECURSIVE TakeUntilIn(_, _)
TakeUntilIn(s, cs) ==
  IF s = <<>> \/ Head(s) \in cs THEN <<>> ELSE <<Head(s)>> \o TakeUntilIn(Tail(s), cs)

\* The part of s after its last '@', s itself when it has none.
RECURSIVE AfterLastAt(_)
AfterLastAt(s) ==
  LET at == IndexOf(s, <<"@">>)
  IN  IF at = 0 THEN s ELSE AfterLastAt(SubSeq(s, at + 1, Len(s)))

\* The host and port of an authority: ok is FALSE where new URL throws
\* (no host, a forbidden host character, a port that is not a number).
ParseHostPort(protocol, host, port) ==
  [ ok       |-> /\ host # <<>>
                 /\ \A i \in 1..Len(host) : host[i] \notin ForbiddenHostChars
                 /\ \A i \in 1..Len(port) : port[i] \in Digits,
    protocol |-> protocol,
    hostname |-> toLowerCase(host) ]

\* The authority without its userinfo, cut at the first ':'.
ParseAuthority(protocol, hostport) ==
  ParseHostPort(protocol, TakeUntilIn(hostport, {":"}),
                SubSeq(hostport, Len(TakeUntilIn(hostport, {":"})) + 2, Len(hostport)))

\* What follows the scheme: any slashes, then the authority up to the path,
\* query or fragment.
ParseAfterScheme(protocol, rest) ==
  ParseAuthority(protocol,
    AfterLastAt(TakeUntilIn(SubSeq(rest, Len(TakeWhileIn(rest, {"/", "\\"})) + 1, Len(rest)),
                            {"/", "\\", "?", "#"})))

\* new URL(url) for a string that begins with a scheme, as far as
\* validateUrl reads it.
ParseUrl(url) ==
  ParseAfterScheme(toLowerCase(SubSeq(url, 1, IndexOf(url, <<":">>))),
                   SubSeq(url, IndexOf(url, <<":">>) + 1, Len(url)))

(***************************************************************************)
(* Addresses as dns.resolve4 / dns.resolve6 return them                    *)
(***************************************************************************)

\* An IPv4 address is its four octets, an IPv6 address its eight 16-bit
\* groups; the resolver returns their text.

\* Dotted decimal text of an IPv4 address.
Ipv4Text(o) ==
  Join(<<NatToString(o[1]), NatToString(o[2]), NatToString(o[3]), NatToString(o[4])>>, <<".">>)

HexDigits ==
  <<"0","1","2","3","4","5","6","7","8","9","a","b","c","d","e","f">>

\* Lower-case hexadecimal text of a group, without leading zeros.
RECURSIVE HexText(_)
HexText(n) ==
  IF n < 16 THEN <<HexDigits[n + 1]>>
  ELSE HexText(n \div 16) \o <<HexDigits[(n % 16) + 1]>>

\* The length of the run of zero groups of g that starts at position i.
RECURSIVE ZeroRun(_, _)
ZeroRun(g, i) ==
  IF i > Len(g) \/ g[i] # 0 THEN 0 ELSE 1 + ZeroRun(g, i + 1)

\* Text of an IPv6 address (inet_ntop): groups in hexadecimal joined by ':',
\* the leftmost longest run of two or more zero groups written '::'.
Ipv6Text(g) ==
  LET runs  == {i \in 1..8 : ZeroRun(g, i) >= 2}
      start == IF runs = {} THEN 0
               ELSE CHOOSE i \in runs :
                      \A j \in runs : \/ ZeroRun(g, i) > ZeroRun(g, j)
                                      \/ ZeroRun(g, i) = ZeroRun(g, j) /\ i <= j
      len   == IF start = 0 THEN 0 ELSE ZeroRun(g, start)
      text(a, b) == Join([k \in 1..(b - a + 1) |-> HexText(g[a + k - 1])], <<":">>)
  IN  IF start = 0 THEN text(1, 8)
      ELSE text(1, start - 1) \o <<":", ":">> \o text(start + len, 8)

\* The text of an address of either family.
IpText(ip) ==
  IF Len(ip) = 4 THEN Ipv4Text(ip) ELSE Ipv6Text(ip)

(***************************************************************************)
(* BLOCKED_IP_RANGES and VALID_IMAGE_TYPES                                 *)
(***************************************************************************)

\* /^172\.(1[6-9]|2[0-9]|3[0-1])\./
Matches172(ip) ==
  /\ StartsWith(ip, <<"1","7","2",".">>)
  /\ Len(ip) >= 7
  /\ \/ ip[5] = "1" /\ ip[6] \in {"6","7","8","9"}
     \/ ip[5] = "2" /\ ip[6] \in Digits
     \/ ip[5] = "3" /\ ip[6] \in {"0","1"}
  /\ ip[7] = "."

\* BLOCKED_IP_RANGES.some(range => range.test(ip)): the fourteen patterns,
\* in the order of the source; the /i patterns are tested on the lower-cased
\* text.
BlockedByRanges(ip) ==
  \/ StartsWith(ip, <<"1","0",".">>)
  \/ Matches172(ip)
  \/ StartsWith(ip, <<"1","9","2",".","1","6","8",".">>)
  \/ StartsWith(ip, <<"1","2","7",".">>)
  \/ StartsWith(ip, <<"1","6","9",".","2","5","4",".">>)
  \/ StartsWith(ip, <<"0",".">>)
  \/ StartsWith(ip, <<"2","2","4",".">>)
  \/ StartsWith(ip, <<"2","4","0",".">>)
  \/ ip = <<":",":","1">>
  \/ StartsWith(ip, <<":",":">>)
  \/ StartsWith(toLowerCase(ip), <<"f","e","8","0",":">>)
  \/ StartsWith(toLowerCase(ip), <<"f","c","0","0",":">>)
  \/ StartsWith(toLowerCase(ip), <<"f","d","0","0",":">>)
  \/ StartsWith(toLowerCase(ip), <<"f","f","0","0",":">>)

VALID_IMAGE_TYPES ==
  << <<"i","m","a","g","e","/","j","p","e","g">>,
     <<"i","m","a","g","e","/","j","p","g">>,
     <<"i","m","a","g","e","/","p","n","g">>,
     <<"i","m","a","g","e","/","w","e","b","p">>,
     <<"i","m","a","g","e","/","g","i","f">>,
     <<"i","m","a","g","e","/","s","v","g","+","x","m","l">>,
     <<"i","m","a","g","e","/","a","v","i","f">>,
     <<"i","m","a","g","e","/","b","m","p">>,
     <<"i","m","a","g","e","/","t","i","f","f">> >>

\* VALID_IMAGE_TYPES.some(type => contentType.toLowerCase().includes(type))
IsValidImageType(contentType) ==
  \E i \in 1..Len(VALID_IMAGE_TYPES) : Includes(toLowerCase(contentType), VALID_IMAGE_TYPES[i])

(***************************************************************************)
(* String literals of the source                                           *)
(***************************************************************************)

\* 'proxy'
proxy ==
  <<"p","r","o","x","y">>

\* 'original'
original ==
  <<"o","r","i","g","i","n","a","l">>

\* '/proxy/'
ProxyPrefix ==
  <<"/","p","r","o","x","y","/">>

\* 'url'
S_url ==
  <<"u","r","l">>

\* 'width'
S_width ==
  <<"w","i","d","t","h">>

\* 'height'
S_height ==
  <<"h","e","i","g","h","t">>

\* 'format'
S_format ==
  <<"f","o","r","m","a","t">>

\* 'quality'
S_quality ==
  <<"q","u","a","l","i","t","y">>

\* 'auto'
S_auto ==
  <<"a","u","t","o">>

\* 'jpeg'
S_jpeg ==
  <<"j","p","e","g">>

\* 'webp'
S_webp ==
  <<"w","e","b","p">>

\* 'avif'
S_avif ==
  <<"a","v","i","f">>

\* 'png'
S_png ==
  <<"p","n","g">>

\* 'svg'
S_svg ==
  <<"s","v","g">>

\* 'gif'
S_gif ==
  <<"g","i","f">>

\* 'http:'
S_http ==
  <<"h","t","t","p",":">>

\* 'https:'
S_https ==
  <<"h","t","t","p","s",":">>

\* 'image/jpeg'
image_jpeg ==
  <<"i","m","a","g","e","/","j","p","e","g">>

\* 'image/gif'
image_gif ==
  <<"i","m","a","g","e","/","g","i","f">>

\* 'image/webp'
image_webp ==
  <<"i","m","a","g","e","/","w","e","b","p">>

\* 'image/png'
image_png ==
  <<"i","m","a","g","e","/","p","n","g">>

\* 'image/avif'
image_avif ==
  <<"i","m","a","g","e","/","a","v","i","f">>

\* 'image/svg+xml'
image_svg_xml ==
  <<"i","m","a","g","e","/","s","v","g","+","x","m","l">>

\* 'application/json'
application_json ==
  <<"a","p","p","l","i","c","a","t","i","o","n","/","j","s","o","n">>

\* 'Only GET method is supported'
M_OnlyGet ==
  <<"O","n","l","y"," ","G","E","T"," ","m","e","t","h","o","d"," ","i","s",
    " ","s","u","p","p","o","r","t","e","d">>

\* 'Invalid request path format'
M_InvalidPath ==
  <<"I","n","v","a","l","i","d"," ","r","e","q","u","e","s","t"," ","p","a",
    "t","h"," ","f","o","r","m","a","t">>

\* 'Failed to decode URL'
M_FailedDecode ==
  <<"F","a","i","l","e","d"," ","t","o"," ","d","e","c","o","d","e"," ","U",
    "R","L">>

\* 'URL validation failed: '
M_UrlValidationFailed ==
  <<"U","R","L"," ","v","a","l","i","d","a","t","i","o","n"," ","f","a","i",
    "l","e","d",":"," ">>

\* 'Invalid URL'
M_InvalidURL ==
  <<"I","n","v","a","l","i","d"," ","U","R","L">>

\* 'Only HTTP/HTTPS protocols allowed'
M_OnlyHttp ==
  <<"O","n","l","y"," ","H","T","T","P","/","H","T","T","P","S"," ","p","r",
    "o","t","o","c","o","l","s"," ","a","l","l","o","w","e","d">>

\* 'Access to private IP addresses is blocked'
M_Blocked ==
  <<"A","c","c","e","s","s"," ","t","o"," ","p","r","i","v","a","t","e"," ",
    "I","P"," ","a","d","d","r","e","s","s","e","s"," ","i","s"," ","b","l",
    "o","c","k","e","d">>

\* 'HTTP '
M_HTTP ==
  <<"H","T","T","P"," ">>

\* 'Invalid content type: '
M_InvalidContentType ==
  <<"I","n","v","a","l","i","d"," ","c","o","n","t","e","n","t"," ","t","y",
    "p","e",":"," ">>

\* 'null'
M_null ==
  <<"n","u","l","l">>

\* 'Image file too large'
M_TooLarge ==
  <<"I","m","a","g","e"," ","f","i","l","e"," ","t","o","o"," ","l","a","r",
    "g","e">>

\* 'Request timeout'
M_RequestTimeout ==
  <<"R","e","q","u","e","s","t"," ","t","i","m","e","o","u","t">>

\* 'fetch failed'
M_FetchFailed ==
  <<"f","e","t","c","h"," ","f","a","i","l","e","d">>

\* 'Request timeout while fetching image'
M_TimeoutWhileFetching ==
  <<"R","e","q","u","e","s","t"," ","t","i","m","e","o","u","t"," ","w","h",
    "i","l","e"," ","f","e","t","c","h","i","n","g"," ","i","m","a","g",
    "e">>

\* 'Unsupported media type'
M_UnsupportedMedia ==
  <<"U","n","s","u","p","p","o","r","t","e","d"," ","m","e","d","i","a"," ",
    "t","y","p","e">>

\* 'Failed to fetch external image: '
M_FailedToFetch ==
  <<"F","a","i","l","e","d"," ","t","o"," ","f","e","t","c","h"," ","e","x",
    "t","e","r","n","a","l"," ","i","m","a","g","e",":"," ">>

\* 'Error transforming image'
M_ErrorTransforming ==
  <<"E","r","r","o","r"," ","t","r","a","n","s","f","o","r","m","i","n","g",
    " ","i","m","a","g","e">>

\* 'Requested transformed image is too big'
M_TooBig ==
  <<"R","e","q","u","e","s","t","e","d"," ","t","r","a","n","s","f","o","r",
    "m","e","d"," ","i","m","a","g","e"," ","i","s"," ","t","o","o"," ","b",
    "i","g">>

\* 'Missing required parameter: url'
M_MissingUrl ==
  <<"M","i","s","s","i","n","g"," ","r","e","q","u","i","r","e","d"," ","p",
    "a","r","a","m","e","t","e","r",":"," ","u","r","l">>

\* 'Invalid URL format'
M_InvalidUrlFormat ==
  <<"I","n","v","a","l","i","d"," ","U","R","L"," ","f","o","r","m","a",
    "t">>

\* 'timeout'
W_timeout ==
  <<"t","i","m","e","o","u","t">>

\* 'too large'
W_too_large ==
  <<"t","o","o"," ","l","a","r","g","e">>

\* 'content type'
W_content_type ==
  <<"c","o","n","t","e","n","t"," ","t","y","p","e">>

\* 'blocked'
W_blocked ==
  <<"b","l","o","c","k","e","d">>

\* The Cache-Control values are only ever assigned and compared whole.
no_store ==
  "no-store"

\* process.env.transformedImageCacheTTL, the stack's S3_TRANSFORMED_IMAGE_CACHE_TTL
TRANSFORMED_IMAGE_CACHE_TTL ==
  "max-age=31622400"

(***************************************************************************)
(* The viewer-request function (functions/url-rewrite/index.js)            *)
(*                                                                         *)
(* A viewer request is [method, uri, querystring, headers]: querystring is *)
(* the sequence of the [key, value] entries of the event's querystring     *)
(* object, in key order (keys are distinct, as they are object keys), and  *)
(* headers is the sequence holding the Accept value, or the empty sequence *)
(* when the request has no Accept header.                                  *)
(***************************************************************************)

\* request.querystring[key].value, the empty string when the key is absent
\* (both are falsy where the code tests them).
QueryValue(querystring, key) ==
  LET hits == {i \in 1..Len(querystring) : querystring[i].key = key}
  IN  IF hits = {} THEN <<>> ELSE querystring[CHOOSE i \in hits : TRUE].value

SUPPORTED_FORMATS ==
  <<S_auto, S_jpeg, S_webp, S_avif, S_png, S_svg, S_gif>>

\* A resolution of 'auto' that looks for webp in the Accept header before
\* avif.
NormalizeFormatWebpFirst(value, headers) ==
  LET formatValue == toLowerCase(value)
      formatFound == \E j \in 1..Len(SUPPORTED_FORMATS) : SUPPORTED_FORMATS[j] = formatValue
  IN  IF value = <<>> \/ ~formatFound THEN <<>>
      ELSE IF formatValue # S_auto THEN formatValue
      ELSE IF headers = <<>> THEN S_jpeg
      ELSE IF Includes(headers[1], S_webp) THEN S_webp
      ELSE IF Includes(headers[1], S_avif) THEN S_avif
      ELSE S_jpeg

\* The format the edge function keeps for a format value: the lower-cased
\* value when it is supported, 'auto' resolved from the Accept header; the
\* empty string when nothing is kept.
NormalizeFormat(value, headers) ==
  LET formatValue == toLowerCase(value)
      formatFound == \E j \in 1..Len(SUPPORTED_FORMATS) : SUPPORTED_FORMATS[j] = formatValue
  IN  IF value = <<>> \/ ~formatFound THEN <<>>
      ELSE IF formatValue # S_auto THEN formatValue
      ELSE IF headers = <<>> THEN S_jpeg
      ELSE IF Includes(headers[1], S_avif) THEN S_avif
      ELSE IF Includes(headers[1], S_webp) THEN S_webp
      ELSE S_jpeg

\* width and height: parseInt, kept when 0 < n <= 4000.
NormalizeSize(value) ==
  LET n == parseInt(value)
  IN  IF value # <<>> /\ ~n.nan /\ n.val > 0 /\ n.val <= 4000
      THEN NatToString(n.val) ELSE <<>>

\* quality: parseInt, kept when n > 0, 100 at most.
NormalizeQuality(value) ==
  LET n == parseInt(value)
  IN  IF value # <<>> /\ ~n.nan /\ n.val > 0
      THEN NatToString(IF n.val > 100 THEN 100 ELSE n.val) ELSE <<>>

\* The loop over Object.keys(request.querystring): normalizedOperations
\* after the entries from position i on, starting from ops.  An operation
\* that is not set is the empty string.
RECURSIVE NormalizeOperations(_, _, _, _)
NormalizeOperations(querystring, headers, i, ops) ==
  IF i > Len(querystring) THEN ops
  ELSE
    LET operation == querystring[i].key
        value     == querystring[i].value
        opLower   == toLowerCase(operation)
        kept      == IF opLower = S_format THEN NormalizeFormat(value, headers)
                     ELSE IF opLower = S_quality THEN NormalizeQuality(value)
                     ELSE NormalizeSize(value)
        next      == IF operation # S_url /\ kept # <<>>
                        /\ opLower \in {S_format, S_width, S_height, S_quality}
                     THEN [ops EXCEPT ![opLower] = kept]
                     ELSE ops
    IN  NormalizeOperations(querystring, headers, i + 1, next)

NoOperations ==
  [o \in {S_format, S_quality, S_width, S_height} |-> <<>>]

\* 'key=' + value
KeyValue(key, value) ==
  key \o <<"=">> \o value

\* The new path's operations: 'original', or the operations that are set, in
\* the order format, quality, width, height, joined by ','.
OperationsSuffix(ops) ==
  LET order == <<S_format, S_quality, S_width, S_height>>
      F[i \in 0..4] ==
        IF i = 0 THEN <<>>
        ELSE IF ops[order[i]] # <<>> THEN Append(F[i - 1], KeyValue(order[i], ops[order[i]]))
        ELSE F[i - 1]
  IN  IF F[4] = <<>> THEN original ELSE Join(F[4], <<",">>)

\* A viewer-request function that forwards a request whose path begins
\* with /proxy/ without its query string.
UrlRewriteDropsQuery(request) ==
  LET imageUrl == QueryValue(request.querystring, S_url)
  IN  IF StartsWith(request.uri, ProxyPrefix)
      THEN [kind |-> "request", request |-> [request EXCEPT !.querystring = <<>>]]
      ELSE IF imageUrl = <<>>
      THEN [kind |-> "response",
            response |-> [statusCode |-> 400, statusDescription |-> "Bad Request",
                          body |-> M_MissingUrl]]
      ELSE IF ~MatchesHttpUrl(imageUrl)
      THEN [kind |-> "response",
            response |-> [statusCode |-> 400, statusDescription |-> "Bad Request",
                          body |-> M_InvalidUrlFormat]]
      ELSE [kind |-> "request",
            request |-> [request EXCEPT
              !.uri = ProxyPrefix \o EncodeUrl(imageUrl) \o <<"/">>
                        \o OperationsSuffix(
                             NormalizeOperations(request.querystring, request.headers,
                                                 1, NoOperations)),
              !.querystring = <<>>]]

\* handler(event) of the viewer-request function: the request it forwards
\* (kind "request") or the response it returns (kind "response").
UrlRewrite(request) ==
  LET imageUrl == QueryValue(request.querystring, S_url)
  IN  IF StartsWith(request.uri, ProxyPrefix)
      THEN [kind |-> "request", request |-> request]
      ELSE IF imageUrl = <<>>
      THEN [kind |-> "response",
            response |-> [statusCode |-> 400, statusDescription |-> "Bad Request",
                          body |-> M_MissingUrl]]
      ELSE IF ~MatchesHttpUrl(imageUrl)
      THEN [kind |-> "response",
            response |-> [statusCode |-> 400, statusDescription |-> "Bad Request",
                          body |-> M_InvalidUrlFormat]]
      ELSE [kind |-> "request",
            request |-> [request EXCEPT
              !.uri = ProxyPrefix \o EncodeUrl(imageUrl) \o <<"/">>
                        \o OperationsSuffix(
                             NormalizeOperations(request.querystring, request.headers,
                                                 1, NoOperations)),
              !.querystring = <<>>]]

(***************************************************************************)
(* Configuration of the origin handler (process.env, set by the stack)     *)
(***************************************************************************)

\* parseInt(process.env.maxImageSize): the largest artifact answered inline,
\* in bytes (the stack's default is 4700000; the model's byte is scaled).
MAX_IMAGE_SIZE ==
  2

\* parseInt(process.env.maxFileSize) || 52428800, scaled like MAX_IMAGE_SIZE.
MAX_FILE_SIZE ==
  3

\* parseInt(process.env.fetchTimeout) || 10000, in ticks of the model's clock.
FETCH_TIMEOUT ==
  2

(***************************************************************************)
(* Bounds of the model                                                     *)
(***************************************************************************)

\* Viewer requests in one behaviour.
MaxRequests ==
  2

\* Ticks the clock counts after a fetch started.
MaxElapsed ==
  4

(***************************************************************************)
(* The origin handler (functions/image-processing/index.mjs)               *)
(***************************************************************************)

\* sendError(statusCode, body, error)
sendError(statusCode, body) ==
  [ from       |-> "lambda",
    statusCode |-> statusCode,
    body       |-> [error |-> body],
    headers    |-> [ContentType |-> application_json, CacheControl |-> no_store] ]

\* What the caller of the function URL gets when the handler's promise
\* rejects: no response of the handler.
Unhandled(message) ==
  [ from       |-> "lambda-runtime",
    statusCode |-> 502,
    errorType  |-> "Unhandled",
    message    |-> message ]

\* pieces.map(o => o.split('='))
SplitEach(pieces, sep) ==
  [i \in 1..Len(pieces) |-> Split(pieces[i], sep)]

\* Object.fromEntries(entries)[key]: the second piece of the last entry
\* whose first piece is key; the empty string when there is no such entry or
\* it has no second piece (undefined and '' are both falsy where the code
\* reads them).
EntryValue(entries, key) ==
  LET hits == {i \in 1..Len(entries) : entries[i][1] = key}
      last == CHOOSE i \in hits : \A j \in hits : j <= i
  IN  IF hits = {} THEN <<>>
      ELSE IF Len(entries[last]) < 2 THEN <<>> ELSE entries[last][2]

\* operationsJSON[key]
OperationsGet(operationsPrefix, key) ==
  EntryValue(SplitEach(Split(operationsPrefix, ","), "="), key)

\* A key that leaves the operations out.
CacheKeyWithoutOperations(encodedUrl, operationsPrefix) ==
  encodedUrl

\* Cache key: base64url(url) + '/' + operations
CacheKey(encodedUrl, operationsPrefix) ==
  encodedUrl \o <<"/">> \o operationsPrefix

\* The formats sharp's toFormat accepts, among those the model's requests
\* name.
SharpOutputFormats ==
  { S_jpeg, <<"j","p","g">>, S_png, S_webp, S_gif, S_avif, <<"t","i","f","f">> }

\* The content type and lossiness the switch on operationsJSON['format']
\* gives.
FormatContentType(format) ==
  IF format = S_jpeg THEN [contentType |-> image_jpeg, isLossy |-> TRUE]
  ELSE IF format = S_gif THEN [contentType |-> image_gif, isLossy |-> FALSE]
  ELSE IF format = S_webp THEN [contentType |-> image_webp, isLossy |-> TRUE]
  ELSE IF format = S_png THEN [contentType |-> image_png, isLossy |-> FALSE]
  ELSE IF format = S_avif THEN [contentType |-> image_avif, isLossy |-> TRUE]
  ELSE [contentType |-> image_jpeg, isLossy |-> TRUE]

\* A number as an if-condition: neither NaN nor 0.
Truthy(n) ==
  ~n.nan /\ n.val # 0

\* sharp's option check: a positive integer.
PositiveInt(n) ==
  ~n.nan /\ n.val > 0

\* transformedImage.resize(resizingOptions), when it is called.
ResizeCall(w, h, width, height) ==
  IF (w # <<>> /\ Truthy(width)) \/ (h # <<>> /\ Truthy(height))
  THEN << [ call |-> "resize", fit |-> "inside", withoutEnlargement |-> TRUE,
            ok     |-> (w = <<>> \/ PositiveInt(width)) /\ (h = <<>> \/ PositiveInt(height)),
            width  |-> IF w = <<>> THEN 0 ELSE width.val,
            height |-> IF h = <<>> THEN 0 ELSE height.val ] >>
  ELSE <<>>

\* transformedImage.rotate(), when it is called.
RotateCall(orientation) ==
  IF orientation THEN <<[call |-> "rotate", ok |-> TRUE]>> ELSE <<>>

\* transformedImage.toFormat(format[, {quality}]), when it is called: the
\* quality is passed for a lossy format; ok says that sharp accepts the
\* format and the quality.
ToFormatCall(format, quality, q, isLossy) ==
  IF format = <<>> THEN <<>>
  ELSE << [ call    |-> "toFormat",
            format  |-> format,
            quality |-> IF quality # <<>> /\ isLossy THEN q.val ELSE 0,
            ok      |-> /\ format \in SharpOutputFormats
                        /\ (quality # <<>> /\ isLossy)
                             => (~q.nan /\ q.val >= 1 /\ q.val <= 100) ] >>

\* The calls of the try block in call order, whether one of them threw
\* (sharp checks its options when called), and the content type.
TransformCalls(calls, contentType) ==
  [ threw       |-> \E i \in 1..Len(calls) : ~calls[i].ok,
    calls       |-> calls,
    contentType |-> contentType ]

\* The try block for the values of operationsJSON.
TransformOperations(w, h, format, quality, orientation, contentType) ==
  TransformCalls(
    ResizeCall(w, h, parseInt(w), parseInt(h))
      \o RotateCall(orientation)
      \o ToFormatCall(format, quality, parseInt(quality), FormatContentType(format).isLossy),
    IF format # <<>> THEN FormatContentType(format).contentType
    ELSE IF contentType = image_svg_xml THEN image_png
    ELSE contentType)

\* The synchronous part of the try block (resize, rotate, toFormat).
Transform(operationsPrefix, orientation, contentType) ==
  TransformOperations(OperationsGet(operationsPrefix, S_width),
                      OperationsGet(operationsPrefix, S_height),
                      OperationsGet(operationsPrefix, S_format),
                      OperationsGet(operationsPrefix, S_quality),
                      orientation, contentType)

\* A 307 whose Location leaves the operations out.
RedirectToEncodedUrl(encodedUrl, operationsPrefix, timingLog) ==
  [ from       |-> "lambda",
    statusCode |-> 307,
    headers    |-> [ Location     |-> ProxyPrefix \o encodedUrl,
                     CacheControl |-> no_store,
                     ServerTiming |-> timingLog ] ]

\* The 307 of the origin handler.
Redirect(encodedUrl, operationsPrefix, timingLog) ==
  [ from       |-> "lambda",
    statusCode |-> 307,
    headers    |-> [ Location     |-> ProxyPrefix \o encodedUrl \o <<"/">> \o operationsPrefix,
                     CacheControl |-> no_store,
                     ServerTiming |-> timingLog ] ]

\* The 200 of the origin handler, the artifact inline.
Inline(transformedImage, contentType, timingLog) ==
  [ from            |-> "lambda",
    statusCode      |-> 200,
    body            |-> transformedImage,
    isBase64Encoded |-> TRUE,
    headers         |-> [ ContentType  |-> contentType,
                          CacheControl |-> TRANSFORMED_IMAGE_CACHE_TTL,
                          ServerTiming |-> timingLog ] ]

\* A delivery that returns inline whatever was not stored, oversize or not.
DeliverInlineWhenNotStored(f, uploaded) ==
  IF uploaded /\ f.imageTooBig
  THEN Redirect(f.encodedUrl, f.operationsPrefix, Append(f.timingLog, "img-upload"))
  ELSE Inline(f.transformedImage, f.contentType,
              IF uploaded THEN Append(f.timingLog, "img-upload") ELSE f.timingLog)

\* What the handler returns once the artifact is computed and the upload, if
\* one was made, has ended: uploaded says that s3Client.send resolved.
Deliver(f, uploaded) ==
  IF uploaded /\ f.imageTooBig
  THEN Redirect(f.encodedUrl, f.operationsPrefix, Append(f.timingLog, "img-upload"))
  ELSE IF f.imageTooBig THEN sendError(413, M_TooBig)
  ELSE Inline(f.transformedImage, f.contentType,
              IF uploaded THEN Append(f.timingLog, "img-upload") ELSE f.timingLog)

\* The status the handler's catch gives a failure of fetchExternalImage.
FetchError(message) ==
  IF Includes(message, W_timeout) THEN sendError(504, M_TimeoutWhileFetching)
  ELSE IF Includes(message, W_too_large) THEN sendError(413, M_TooLarge)
  ELSE IF Includes(message, W_content_type) THEN sendError(415, M_UnsupportedMedia)
  ELSE sendError(502, M_FailedToFetch \o message)

(***************************************************************************)
(* Inputs: what viewers, the resolver, the upstream server, the codec and  *)
(* the store can present                                                   *)
(***************************************************************************)

\* 'http://a'
Url_a ==
  <<"h","t","t","p",":","/","/","a">>

\* A viewer request with a query string.
Query(method, querystring, headers) ==
  [method |-> method, uri |-> <<"/">>, querystring |-> querystring, headers |-> headers]

\* A viewer request for a path, without query string.
Path(method, uri) ==
  [method |-> method, uri |-> uri, querystring |-> <<>>, headers |-> <<>>]

\* A query-string entry.
Param(key, value) ==
  [key |-> key, value |-> value]

\* The requests viewers send.
Requests ==
  { \* ?url=http://a&format=png&width=3
    Query("GET", <<Param(S_url, Url_a), Param(S_format, S_png), Param(S_width, <<"3">>)>>, <<>>),
    \* ?width=3&url=http://a&FORMAT=PNG
    Query("GET", <<Param(S_width, <<"3">>), Param(S_url, Url_a),
                   Param(<<"F","O","R","M","A","T">>, <<"P","N","G">>)>>, <<>>),
    \* ?url=http://a
    Query("GET", <<Param(S_url, Url_a)>>, <<>>),
    \* ?width=3
    Query("GET", <<Param(S_width, <<"3">>)>>, <<>>),
    \* ?url=ftp://a
    Query("GET", <<Param(S_url, <<"f","t","p",":","/","/","a">>)>>, <<>>),
    \* /proxy/aHR0cDovL2E/width=3,format=png
    Path("GET", ProxyPrefix \o EncodeUrl(Url_a) \o <<"/">>
                  \o KeyValue(S_width, <<"3">>) \o <<",">> \o KeyValue(S_format, S_png)),
    \* /proxy/aHR0cDovL2E
    Path("GET", ProxyPrefix \o EncodeUrl(Url_a)),
    \* HEAD /proxy/aHR0cDovL2E
    Path("HEAD", ProxyPrefix \o EncodeUrl(Url_a)),
    \* /proxy/Zm9v/original ('foo')
    Path("GET", ProxyPrefix \o EncodeUrl(<<"f","o","o">>) \o <<"/">> \o original),
    \* /proxy/aHR0cDovLyU/original ('http://%')
    Path("GET", ProxyPrefix \o EncodeUrl(<<"h","t","t","p",":","/","/","%">>)
                  \o <<"/">> \o original),
    \* /proxy/
    Path("GET", ProxyPrefix) }

\* 8.8.8.8
Ipv4Public ==
  <<8, 8, 8, 8>>

\* 2001:db8::1
Ipv6Public ==
  <<8193, 3512, 0, 0, 0, 0, 0, 1>>

\* IPv4 addresses a name can resolve to: 10.0.0.1, 172.31.0.1, 172.32.0.1,
\* 169.254.169.254, 239.255.255.250, 8.8.8.8.
Ipv4Pool ==
  { <<10, 0, 0, 1>>, <<172, 31, 0, 1>>, <<172, 32, 0, 1>>, <<169, 254, 169, 254>>,
    <<239, 255, 255, 250>>, Ipv4Public }

\* IPv6 addresses a name can resolve to: ::1, fe80::1, fd12::1, 2001:db8::1.
Ipv6Pool ==
  { <<0, 0, 0, 0, 0, 0, 0, 1>>, <<65152, 0, 0, 0, 0, 0, 0, 1>>,
    <<64786, 0, 0, 0, 0, 0, 0, 1>>, Ipv6Public }

\* The answers of one lookup: no address (a failed lookup is the empty
\* answer, .catch(() => [])), one address of the pool, or the pool's last
\* address followed by another one.
Answers(pool, last) ==
  {<<>>} \cup {<<a>> : a \in pool} \cup {<<last, a>> : a \in pool \ {last}}

\* The text of each address of an answer.
AnswerText(answer) ==
  [i \in 1..Len(answer) |-> IpText(answer[i])]

\* Response heads of the upstream server: contentType and contentLength
\* hold the header's value, or are empty when the header is absent
\* (headers.get gives null).  Among them a 404, a 500 whose status text is
\* 'upstream timeout', and 200s of type 'text/html;timeout=5' and
\* 'text/html;x=image/png'.
UpstreamHeads ==
  { [ok |-> TRUE, status |-> <<"2","0","0">>, statusText |-> <<"O","K">>,
     contentType |-> <<ct>>, contentLength |-> cl] :
      ct \in {image_png, image_svg_xml, <<"t","e","x","t","/","h","t","m","l">>},
      cl \in {<<>>, <<NatToString(MAX_FILE_SIZE)>>} }
  \cup
  { [ok |-> TRUE, status |-> <<"2","0","0">>, statusText |-> <<"O","K">>,
     contentType |-> <<image_png>>, contentLength |-> <<NatToString(MAX_FILE_SIZE + 1)>>],
    [ok |-> TRUE, status |-> <<"2","0","0">>, statusText |-> <<"O","K">>,
     contentType |-> <<>>, contentLength |-> <<>>],
    [ok |-> FALSE, status |-> <<"4","0","4">>,
     statusText |-> <<"N","o","t"," ","F","o","u","n","d">>,
     contentType |-> <<image_png>>, contentLength |-> <<>>],
    [ok |-> FALSE, status |-> <<"5","0","0">>,
     statusText |-> <<"u","p","s","t","r","e","a","m"," ">> \o W_timeout,
     contentType |-> <<>>, contentLength |-> <<>>],
    [ok |-> TRUE, status |-> <<"2","0","0">>, statusText |-> <<"O","K">>,
     contentType |-> << <<"t","e","x","t","/","h","t","m","l",";","t","i","m","e","o","u","t","=","5">> >>,
     contentLength |-> <<>>],
    [ok |-> TRUE, status |-> <<"2","0","0">>, statusText |-> <<"O","K">>,
     contentType |-> << <<"t","e","x","t","/","h","t","m","l",";","x","=">> \o image_png >>,
     contentLength |-> <<>>] }

\* A Buffer: its length and what it holds.
Buffer(byteLength, data) ==
  [byteLength |-> byteLength, data |-> data]

NoBuffer ==
  Buffer(0, [kind |-> "none"])

\* Response bodies of the upstream server: nothing, an image with or without
\* orientation metadata, bytes no decoder recognises, an image whose pixel
\* data is damaged, and an image one byte above MAX_FILE_SIZE.
UpstreamBodies ==
  { Buffer(0, [kind |-> "empty"]),
    Buffer(MAX_FILE_SIZE, [kind |-> "image", orientation |-> FALSE]),
    Buffer(MAX_FILE_SIZE, [kind |-> "image", orientation |-> TRUE]),
    Buffer(MAX_FILE_SIZE, [kind |-> "unreadable"]),
    Buffer(MAX_FILE_SIZE, [kind |-> "damaged", orientation |-> FALSE]),
    Buffer(MAX_FILE_SIZE + 1, [kind |-> "image", orientation |-> FALSE]) }

\* The lengths an encoded artifact can have.
ArtifactLengths ==
  {MAX_IMAGE_SIZE, MAX_IMAGE_SIZE + 1}

(***************************************************************************)
(* State                                                                   *)
(***************************************************************************)

VARIABLES
  S3_TRANSFORMED_IMAGE_BUCKET,  \* whether the stack created the bucket
  store,      \* the bucket: its objects [Key, Body, ContentType, CacheControl, Metadata]
  nreq,       \* viewer requests so far
  viewer,     \* the request as the viewer sent it, and whether it follows a 307
  request,    \* the request CloudFront forwards to the origin
  pc,         \* where the request is
  frame,      \* the locals of the handler's invocation
  timer,      \* setTimeout of fetchExternalImage, and the clock since the fetch began
  put,        \* the PutObject of this invocation: "none", "sent", "ok", "failed"
  response,   \* the response the viewer gets
  others      \* the other requests in flight at the same time, each with its
              \* viewer, request, pc, frame, timer, put and response

vars ==
  <<S3_TRANSFORMED_IMAGE_BUCKET, store, nreq, viewer, request, pc, frame, timer, put,
    response, others>>

NoRequest ==
  [method |-> "", uri |-> <<>>, querystring |-> <<>>, headers |-> <<>>]

NoResponse ==
  [from |-> "none", statusCode |-> 0]

NoTimer ==
  [armed |-> FALSE, elapsed |-> 0]

EmptyFrame ==
  [ encodedUrl        |-> <<>>,
    operationsPrefix  |-> <<>>,
    imageUrl          |-> <<>>,
    thrown            |-> "none",
    ipv4Addresses     |-> <<>>,
    allIps            |-> <<>>,
    contentType       |-> <<>>,
    originalImageBody |-> NoBuffer,
    calls             |-> <<>>,
    transformedImage  |-> NoBuffer,
    imageTooBig       |-> FALSE,
    timingLog         |-> <<>> ]

Init ==
  /\ S3_TRANSFORMED_IMAGE_BUCKET \in BOOLEAN
  /\ store = {}
  /\ nreq = 0
  /\ viewer = [request |-> NoRequest, followed |-> FALSE]
  /\ request = NoRequest
  /\ pc = "viewer"
  /\ frame = EmptyFrame
  /\ timer = NoTimer
  /\ put = "none"
  /\ response = NoResponse
  /\ others = <<>>

(***************************************************************************)
(* Viewer and edge                                                         *)
(***************************************************************************)

\* The viewer's request passes the viewer-request function: an error
\* response of the function goes back to the viewer, a request goes on to
\* the origin.
Forward(out) ==
  IF out.kind = "response"
  THEN /\ request' = NoRequest
       /\ response' = [ from              |-> "edge-function",
                        statusCode        |-> out.response.statusCode,
                        statusDescription |-> out.response.statusDescription,
                        body              |-> out.response.body ]
       /\ pc' = "done"
  ELSE /\ request' = out.request
       /\ response' = NoResponse
       /\ pc' = "origin"

\* A viewer's request, first or following a redirect.
Issue(req, followed) ==
  /\ nreq < MaxRequests
  /\ nreq' = nreq + 1
  /\ viewer' = [request |-> req, followed |-> followed]
  /\ frame' = EmptyFrame
  /\ timer' = NoTimer
  /\ put' = "none"
  /\ Forward(UrlRewrite(req))
  /\ UNCHANGED <<others, S3_TRANSFORMED_IMAGE_BUCKET, store>>

\* A viewer sends one of the requests.
ViewerRequest ==
  /\ pc \in {"viewer", "done"}
  /\ \E req \in Requests : Issue(req, FALSE)

\* The viewer follows the 307 it got: the same method, the Location's path.
FollowRedirect ==
  /\ pc = "done"
  /\ response.statusCode = 307
  /\ Issue(Path(viewer.request.method, response.headers.Location), TRUE)

(***************************************************************************)
(* The origin of the distribution (lib/image-optimization-stack.ts)        *)
(***************************************************************************)

\* The key of the object the S3 origin is asked for: the request's path
\* without its leading '/' (the origin is created without an origin path).
S3ObjectKey(uri) ==
  Tail(uri)

\* The objects of the bucket under a key.
ObjectsAt(key) ==
  {o \in store : o.Key = key}

\* What the S3 origin answers for an object it holds.
S3Response(o) ==
  [ from       |-> "s3",
    statusCode |-> 200,
    body       |-> o.Body,
    headers    |-> [ContentType |-> o.ContentType,
                    CacheControl |-> o.CacheControl] ]

\* The origin group: the bucket first; for an object it does not hold S3
\* answers 403, one of the fallbackStatusCodes, and the request goes to the
\* function URL.
OriginGroup(objects) ==
  IF objects # {}
  THEN pc' = "done" /\ response' = S3Response(CHOOSE o \in objects : TRUE)
  ELSE pc' = "lambda" /\ response' = response

\* The origin of the cache behaviour: the origin group when the stack has
\* the bucket, the function URL alone otherwise.
Origin ==
  /\ pc = "origin"
  /\ IF S3_TRANSFORMED_IMAGE_BUCKET
     THEN OriginGroup(ObjectsAt(S3ObjectKey(request.uri)))
     ELSE pc' = "lambda" /\ response' = response
  /\ UNCHANGED <<others, S3_TRANSFORMED_IMAGE_BUCKET, store, nreq, viewer, request, frame, timer, put>>

(***************************************************************************)
(* The handler's steps, one per await                                      *)
(***************************************************************************)

\* The handler returns resp.
Return(resp) ==
  /\ response' = resp
  /\ pc' = "done"

\* validateUrl up to its first await: new URL and the protocol check.
ValidateUrlStart(parsedUrl) ==
  IF ~parsedUrl.ok
  THEN Return(sendError(403, M_UrlValidationFailed \o M_InvalidURL))
  ELSE IF parsedUrl.protocol \notin {S_http, S_https}
  THEN Return(sendError(403, M_UrlValidationFailed \o M_OnlyHttp))
  ELSE pc' = "resolve4" /\ response' = response

\* The token is decoded and tested against /^https?:\/\/.+/i.
DecodeStep(encodedUrl, operationsPrefix, imageUrl) ==
  IF ~MatchesHttpUrl(imageUrl)
  THEN /\ Return(sendError(400, M_FailedDecode))
       /\ frame' = [frame EXCEPT !.encodedUrl = encodedUrl,
                                 !.operationsPrefix = operationsPrefix]
  ELSE /\ frame' = [frame EXCEPT !.encodedUrl = encodedUrl,
                                 !.operationsPrefix = operationsPrefix,
                                 !.imageUrl = imageUrl]
       /\ ValidateUrlStart(ParseUrl(imageUrl))

\* The path is split: pathParts[1] is the token, pathParts[2] || 'original'
\* the operations (positions counted from 0, as the code does).
PathStep(pathParts) ==
  IF Len(pathParts) < 2 \/ pathParts[1] # proxy
  THEN Return(sendError(400, M_InvalidPath)) /\ frame' = frame
  ELSE DecodeStep(pathParts[2],
                  IF Len(pathParts) >= 3 THEN pathParts[3] ELSE original,
                  DecodeUrl(pathParts[2]))

\* From the entry to the first await of validateUrl (resolve4): method and
\* path checks, decoding of the token, new URL and the protocol check.
HandlerStart ==
  /\ pc = "lambda"
  /\ IF request.method # "GET"
     THEN Return(sendError(400, M_OnlyGet)) /\ frame' = frame
     ELSE PathStep(FilterNonEmpty(Split(request.uri, "/")))
  /\ UNCHANGED <<others, S3_TRANSFORMED_IMAGE_BUCKET, store, nreq, viewer, request, timer, put>>

\* resolve4 settles.
Resolve4 ==
  /\ pc = "resolve4"
  /\ \E answer \in Answers(Ipv4Pool, Ipv4Public) :
       frame' = [frame EXCEPT !.ipv4Addresses = AnswerText(answer)]
  /\ pc' = "resolve6"
  /\ UNCHANGED <<others, S3_TRANSFORMED_IMAGE_BUCKET, store, nreq, viewer, request, timer, put, response>>

\* Whether the loop over allIps throws 'Access to private IP addresses is
\* blocked'.
AnyBlocked(allIps) ==
  \E i \in 1..Len(allIps) : BlockedByRanges(allIps[i])

\* A guard that also throws when no address was resolved.
GuardStepRejectsUnresolved(allIps) ==
  /\ frame' = [frame EXCEPT !.ipv4Addresses = <<>>, !.allIps = allIps]
  /\ IF allIps = <<>> \/ AnyBlocked(allIps)
     THEN /\ Return(sendError(403, M_UrlValidationFailed \o M_Blocked))
          /\ timer' = timer
     ELSE /\ timer' = [armed |-> TRUE, elapsed |-> 0]
          /\ pc' = "headers"
          /\ response' = response

\* The loop over allIps, and what follows it.
GuardStep(allIps) ==
  /\ frame' = [frame EXCEPT !.ipv4Addresses = <<>>, !.allIps = allIps]
  /\ IF AnyBlocked(allIps)
     THEN /\ Return(sendError(403, M_UrlValidationFailed \o M_Blocked))
          /\ timer' = timer
     ELSE /\ timer' = [armed |-> TRUE, elapsed |-> 0]
          /\ pc' = "headers"
          /\ response' = response

\* resolve6 settles: the addresses are tested; validateUrl throws (403) or
\* returns, and then fetchExternalImage arms its timer and starts the fetch.
Resolve6 ==
  /\ pc = "resolve6"
  /\ \E answer \in Answers(Ipv6Pool, Ipv6Public) :
       GuardStep(frame.ipv4Addresses \o AnswerText(answer))
  /\ UNCHANGED <<others, S3_TRANSFORMED_IMAGE_BUCKET, store, nreq, viewer, request, put>>

\* Time passes while the transfer is in flight; an armed timer that is due
\* fires before more time passes.
Tick ==
  /\ pc \in {"headers", "body"}
  /\ timer.elapsed < MaxElapsed
  /\ ~(timer.armed /\ timer.elapsed >= FETCH_TIMEOUT)
  /\ timer' = [timer EXCEPT !.elapsed = @ + 1]
  /\ UNCHANGED <<others, S3_TRANSFORMED_IMAGE_BUCKET, store, nreq, viewer, request, pc, frame, put, response>>

\* The timer fires: controller.abort(), the fetch rejects with an
\* AbortError, fetchExternalImage throws 'Request timeout'.
FetchAbort ==
  /\ pc \in {"headers", "body"}
  /\ timer.armed
  /\ timer.elapsed >= FETCH_TIMEOUT
  /\ timer' = [timer EXCEPT !.armed = FALSE]
  /\ frame' = [frame EXCEPT !.allIps = <<>>, !.thrown = "abort"]
  /\ Return(FetchError(M_RequestTimeout))
  /\ UNCHANGED <<others, S3_TRANSFORMED_IMAGE_BUCKET, store, nreq, viewer, request, put>>

\* The transfer fails (connection refused or reset, name not found): fetch
\* or arrayBuffer rejects with 'fetch failed'.
FetchFails ==
  /\ pc \in {"headers", "body"}
  /\ timer' = NoTimer
  /\ frame' = [frame EXCEPT !.allIps = <<>>, !.thrown = "rejected"]
  /\ Return(FetchError(M_FetchFailed))
  /\ UNCHANGED <<others, S3_TRANSFORMED_IMAGE_BUCKET, store, nreq, viewer, request, put>>

\* An error thrown in fetchExternalImage: the statement that threw it and
\* its message.
Thrown(at, message) ==
  [at |-> at, message |-> message]

\* What fetchExternalImage throws on a response head; at is "none" when it
\* goes on to read the body.
HeadError(head) ==
  IF ~head.ok
  THEN Thrown("ok", M_HTTP \o head.status \o <<":", " ">> \o head.statusText)
  ELSE IF head.contentType = <<>>
  THEN Thrown("content-type", M_InvalidContentType \o M_null)
  ELSE IF ~IsValidImageType(head.contentType[1])
  THEN Thrown("content-type", M_InvalidContentType \o head.contentType[1])
  ELSE IF head.contentLength # <<>>
          /\ ~parseInt(head.contentLength[1]).nan
          /\ parseInt(head.contentLength[1]).val > MAX_FILE_SIZE
  THEN Thrown("content-length", M_TooLarge)
  ELSE Thrown("none", <<>>)

\* After the checks of the head: error is what they threw, if anything.
HeadStep(head, error) ==
  IF error.at # "none"
  THEN /\ Return(FetchError(error.message))
       /\ frame' = [frame EXCEPT !.allIps = <<>>, !.thrown = error.at]
  ELSE /\ frame' = [frame EXCEPT !.allIps = <<>>, !.contentType = head.contentType[1]]
       /\ pc' = "body"
       /\ response' = response

\* The response head arrives, one of heads: clearTimeout, then the checks
\* of status, Content-Type and Content-Length, then the body is awaited.
FetchHeadersFrom(heads) ==
  /\ pc = "headers"
  /\ timer' = [timer EXCEPT !.armed = FALSE]
  /\ \E head \in heads : HeadStep(head, HeadError(head))
  /\ UNCHANGED <<others, S3_TRANSFORMED_IMAGE_BUCKET, store, nreq, viewer, request, put>>

FetchHeaders ==
  FetchHeadersFrom(UpstreamHeads)

\* The body has arrived: the size check, then the sharp instance is made
\* (it throws on an empty buffer) and metadata() is awaited.
FetchBody ==
  /\ pc = "body"
  /\ \E body \in UpstreamBodies :
       IF body.byteLength > MAX_FILE_SIZE
       THEN Return(FetchError(M_TooLarge)) /\ frame' = [frame EXCEPT !.thrown = "byteLength"]
       ELSE /\ frame' = [frame EXCEPT !.originalImageBody = body]
            /\ IF body.byteLength = 0
               THEN Return(Unhandled("Input Buffer is empty"))
               ELSE pc' = "metadata" /\ response' = response
  /\ timer' = NoTimer
  /\ UNCHANGED <<others, S3_TRANSFORMED_IMAGE_BUCKET, store, nreq, viewer, request, put>>

\* The try block up to the await of toBuffer(): t is what Transform gives.
TransformStep(t) ==
  /\ frame' = [frame EXCEPT !.timingLog = <<"img-download">>,
                            !.calls = t.calls,
                            !.contentType = t.contentType]
  /\ IF t.threw
     THEN Return(sendError(500, M_ErrorTransforming))
     ELSE pc' = "toBuffer" /\ response' = response

\* metadata() settles: it rejects on bytes it cannot read; otherwise the
\* operations are parsed and applied, and toBuffer() is awaited.
Metadata ==
  /\ pc = "metadata"
  /\ IF frame.originalImageBody.data.kind = "unreadable"
     THEN /\ Return(Unhandled("Input buffer contains unsupported image format"))
          /\ frame' = frame
     ELSE TransformStep(Transform(frame.operationsPrefix,
                                  frame.originalImageBody.data.orientation,
                                  frame.contentType))
  /\ UNCHANGED <<others, S3_TRANSFORMED_IMAGE_BUCKET, store, nreq, viewer, request, timer, put>>

\* The PutObjectCommand of the handler.
PutObjectCommand(f) ==
  [ Key          |-> CacheKey(f.encodedUrl, f.operationsPrefix),
    Body         |-> f.transformedImage,
    ContentType  |-> f.contentType,
    CacheControl |-> TRANSFORMED_IMAGE_CACHE_TTL,
    Metadata     |-> [ original_url_base64 |-> base64Encode(f.imageUrl),
                       transformations     |-> f.operationsPrefix ] ]

\* A toBuffer() step that sends the upload whether or not there is a bucket.
ToBufferAlwaysUploads ==
  /\ pc = "toBuffer"
  /\ IF frame.originalImageBody.data.kind = "damaged"
     THEN /\ Return(sendError(500, M_ErrorTransforming))
          /\ UNCHANGED <<frame, put>>
     ELSE \E n \in ArtifactLengths :
            /\ frame' = [frame EXCEPT
                          !.transformedImage =
                             Buffer(n, [kind   |-> "artifact",
                                        source |-> frame.originalImageBody.data,
                                        calls  |-> frame.calls]),
                          !.imageTooBig = n > MAX_IMAGE_SIZE,
                          !.timingLog = Append(@, "img-transform")]
            /\ put' = "sent" /\ pc' = "put" /\ response' = response
  /\ UNCHANGED <<others, S3_TRANSFORMED_IMAGE_BUCKET, store, nreq, viewer, request, timer>>

\* toBuffer() settles: it rejects when the codec fails; otherwise the
\* artifact is measured and, with a bucket, the upload is sent.
ToBuffer ==
  /\ pc = "toBuffer"
  /\ IF frame.originalImageBody.data.kind = "damaged"
     THEN /\ Return(sendError(500, M_ErrorTransforming))
          /\ UNCHANGED <<frame, put>>
     ELSE \E n \in ArtifactLengths :
            LET f == [frame EXCEPT
                       !.transformedImage =
                          Buffer(n, [kind   |-> "artifact",
                                     source |-> frame.originalImageBody.data,
                                     calls  |-> frame.calls]),
                       !.imageTooBig = n > MAX_IMAGE_SIZE,
                       !.timingLog = Append(@, "img-transform")]
            IN  /\ frame' = f
                /\ IF S3_TRANSFORMED_IMAGE_BUCKET
                   THEN put' = "sent" /\ pc' = "put" /\ response' = response
                   ELSE put' = put /\ Return(Deliver(f, FALSE))
  /\ UNCHANGED <<others, S3_TRANSFORMED_IMAGE_BUCKET, store, nreq, viewer, request, timer>>

\* The bucket after a PutObject: the object replaces any of the same key.
PutObject(command) ==
  (store \ ObjectsAt(command.Key)) \cup {command}

\* An upload that the bucket rejects when it has an object of the key.
PutObjectIfNoneMatch ==
  /\ pc = "put"
  /\ IF ObjectsAt(PutObjectCommand(frame).Key) = {}
     THEN /\ store' = PutObject(PutObjectCommand(frame))
          /\ put' = "ok"
          /\ Return(Deliver(frame, TRUE))
     ELSE /\ store' = store
          /\ put' = "failed"
          /\ Return(Deliver(frame, FALSE))
  /\ UNCHANGED <<others, S3_TRANSFORMED_IMAGE_BUCKET, nreq, viewer, request, frame, timer>>

\* s3Client.send resolves: the object is in the bucket, in place of any
\* object of the same key.
PutObjectOk ==
  /\ pc = "put"
  /\ store' = PutObject(PutObjectCommand(frame))
  /\ put' = "ok"
  /\ Return(Deliver(frame, TRUE))
  /\ UNCHANGED <<others, S3_TRANSFORMED_IMAGE_BUCKET, nreq, viewer, request, frame, timer>>

\* A rejected s3Client.send that is answered with an error.
PutObjectFailsWithError ==
  /\ pc = "put"
  /\ put' = "failed"
  /\ Return(sendError(500, M_ErrorTransforming))
  /\ UNCHANGED <<others, S3_TRANSFORMED_IMAGE_BUCKET, store, nreq, viewer, request, frame, timer>>

\* s3Client.send rejects: the catch logs, and the handler falls through.
PutObjectFails ==
  /\ pc = "put"
  /\ put' = "failed"
  /\ Return(Deliver(frame, FALSE))
  /\ UNCHANGED <<others, S3_TRANSFORMED_IMAGE_BUCKET, store, nreq, viewer, request, frame, timer>>

Next ==
  \/ ViewerRequest
  \/ FollowRedirect
  \/ Origin
  \/ HandlerStart
  \/ Resolve4
  \/ Resolve6
  \/ Tick
  \/ FetchAbort
  \/ FetchFails
  \/ FetchHeaders
  \/ FetchBody
  \/ Metadata
  \/ ToBuffer
  \/ PutObjectOk
  \/ PutObjectFails

Spec ==
  Init /\ [][Next]_vars

(***************************************************************************)
(* The front of the pipeline on a wide set of requests: the viewer-request *)
(* function, the origin of the cache behaviour, and the handler up to the  *)
(* first await of validateUrl                                              *)
(***************************************************************************)

\* Query-string entries of one request of OrderedRequests.
MaxParams ==
  3

\* Characters after the scheme in the url values of UrlRequests.
MaxSuffix ==
  3

\* The sequences of n distinct elements of S.
Arrangements(S, n) ==
  {q \in [1..n -> S] : \A i, j \in 1..n : q[i] = q[j] => i = j}

\* Entries a query string is made of: the url, operations under keys of
\* either letter case, and a key the function does not know.
ParamPool ==
  { Param(S_url, Url_a),
    Param(S_width, <<"3">>),
    Param(<<"W","I","D","T","H">>, <<"5">>),
    Param(S_height, <<"7">>),
    Param(<<"F","o","r","m","a","t">>, S_png),
    Param(S_quality, <<"8","0">>),
    Param(<<"f","o","o">>, <<"1">>) }

\* Requests whose query string is up to MaxParams entries of the pool, in
\* every order.
OrderedRequests ==
  { Query("GET", q, <<>>) : q \in UNION { Arrangements(ParamPool, n) : n \in 0..MaxParams } }

\* Values of width and height: 4000, 4001, 0, -5, 12.5, abc, 300px, 1 and
\* the empty value.
SizeValues ==
  { <<"4","0","0","0">>, <<"4","0","0","1">>, <<"0">>, <<"-","5">>, <<"1","2",".","5">>, <<"a","b","c">>, <<"3","0","0","p","x">>,
    <<"1">>, <<>> }

\* ?url=http://a&width=v and ?url=http://a&height=v
SizeRequests ==
  { Query("GET", <<Param(S_url, Url_a), Param(k, v)>>, <<>>) :
      k \in {S_width, S_height}, v \in SizeValues }

\* Values of quality: 100, 101, 250, 1, 0, -1, 85.5, abc and the empty value.
QualityValues ==
  { <<"1","0","0">>, <<"1","0","1">>, <<"2","5","0">>, <<"1">>, <<"0">>, <<"-","1">>,
    <<"8","5",".","5">>, <<"a","b","c">>, <<>> }

\* ?url=http://a&quality=v
QualityRequests ==
  { Query("GET", <<Param(S_url, Url_a), Param(S_quality, v)>>, <<>>) : v \in QualityValues }

\* Values of format: the supported ones, AUTO, bmp and the empty value.
FormatValues ==
  { S_auto, <<"A","U","T","O">>, S_jpeg, S_webp, S_avif, S_png, S_svg, S_gif, <<"b","m","p">>, <<>> }

\* Accept headers: none, image/avif,image/webp, image/webp, */*.
AcceptHeaders ==
  { <<>>, <<<<"i","m","a","g","e","/","a","v","i","f",",","i","m","a","g","e","/","w","e","b","p">>>>, <<<<"i","m","a","g","e","/","w","e","b","p">>>>, <<<<"*","/","*">>>> }

\* ?url=http://a&format=v and ?url=http://a&format=v&width=3, under each
\* Accept header.
FormatRequests ==
  { Query("GET", <<Param(S_url, Url_a), Param(S_format, v)>> \o w, h) :
      v \in FormatValues, w \in {<<>>, <<Param(S_width, <<"3">>)>>}, h \in AcceptHeaders }

\* What a url value starts with: http://, https://, HTTP://, ftp://.
UrlPrefixes ==
  { <<"h","t","t","p",":","/","/">>, <<"h","t","t","p","s",":","/","/">>,
    <<"H","T","T","P",":","/","/">>, <<"f","t","p",":","/","/">> }

\* The strings of up to n characters among a, ? and > (whose codes give
\* every padding of base64 and its characters '+' and '/') and U+00E9.
RECURSIVE UrlSuffixes(_)
UrlSuffixes(n) ==
  IF n = 0 THEN {<<>>}
  ELSE LET shorter == UrlSuffixes(n - 1)
       IN  shorter \cup {Append(t, c) : t \in shorter, c \in {"a", "?", ">", E_acute}}

\* ?url=u for each prefix and suffix, and ?url= with the empty value.
UrlRequests ==
  { Query("GET", <<Param(S_url, u \o t)>>, <<>>) : u \in UrlPrefixes, t \in UrlSuffixes(MaxSuffix) }
  \cup { Query("GET", <<Param(S_url, <<>>)>>, <<>>) }

\* Requests whose path begins with /proxy/ and that carry a query string
\* and an Accept header: /proxy/aHR0cDovL2E/width=3?url=http://a&width=5 and
\* /proxy/?format=auto, each with Accept: image/webp; and a path with a
\* segment after the operations, /proxy/aHR0cDovL2E/width=3/x.
CanonicalRequests ==
  { [method |-> "GET", uri |-> ProxyPrefix \o EncodeUrl(Url_a) \o <<"/">> \o KeyValue(S_width, <<"3">>),
     querystring |-> <<Param(S_url, Url_a), Param(S_width, <<"5">>)>>,
     headers |-> <<image_webp>>],
    [method |-> "GET", uri |-> ProxyPrefix,
     querystring |-> <<Param(S_format, S_auto)>>,
     headers |-> <<image_webp>>],
    [method |-> "GET",
     uri |-> ProxyPrefix \o EncodeUrl(Url_a) \o <<"/">> \o KeyValue(S_width, <<"3">>) \o <<"/", "x">>,
     querystring |-> <<>>,
     headers |-> <<>>] }

\* The requests viewers send in SpecEdge.
EdgeRequests ==
  OrderedRequests \cup SizeRequests \cup QualityRequests \cup FormatRequests
    \cup UrlRequests \cup CanonicalRequests \cup Requests

\* A viewer sends one of the requests; it passes the viewer-request
\* function.
EdgeRequest ==
  /\ pc = "viewer"
  /\ \E req \in EdgeRequests :
       /\ viewer' = [request |-> req, followed |-> FALSE]
       /\ Forward(UrlRewrite(req))
  /\ frame' = EmptyFrame
  /\ UNCHANGED <<others, S3_TRANSFORMED_IMAGE_BUCKET, store, nreq, timer, put>>

NextEdge ==
  \/ EdgeRequest
  \/ Origin
  \/ HandlerStart

SpecEdge ==
  Init /\ [][NextEdge]_vars

(***************************************************************************)
(* Concurrent requests for one image.  Each request has its own invocation *)
(* of the handler (its own frame, timer and upload); the invocations share *)
(* the bucket.  The request whose step is taken is the one in viewer,      *)
(* request, pc, frame, timer, put and response; the other ones are in      *)
(* others.  The upstream server answers every fetch alike, the codec gives *)
(* one artifact for one input, and the bucket accepts every upload.        *)
(***************************************************************************)

\* Requests in flight at the same time.
MaxInvocations ==
  2

\* The request whose step is taken, as others holds it.
Current ==
  [ viewer |-> viewer, request |-> request, pc |-> pc, frame |-> frame,
    timer |-> timer, put |-> put, response |-> response ]

\* The requests viewers send at the same time: ?url=http://a&format=png&width=3
\* and ?url=http://a
SimultaneousRequests ==
  { Query("GET", <<Param(S_url, Url_a), Param(S_format, S_png), Param(S_width, <<"3">>)>>, <<>>),
    Query("GET", <<Param(S_url, Url_a)>>, <<>>) }

\* MaxInvocations viewers send the same request; each passes the
\* viewer-request function.
SimultaneousViewerRequests ==
  /\ pc = "viewer"
  /\ nreq = 0
  /\ nreq' = MaxInvocations
  /\ \E req \in SimultaneousRequests :
       /\ viewer' = [request |-> req, followed |-> FALSE]
       /\ Forward(UrlRewrite(req))
       /\ others' = [i \in 1..(MaxInvocations - 1) |->
                       [ viewer |-> [request |-> req, followed |-> FALSE],
                         request |-> UrlRewrite(req).request, pc |-> "origin",
                         frame |-> EmptyFrame, timer |-> NoTimer, put |-> "none",
                         response |-> NoResponse ]]
  /\ frame' = EmptyFrame
  /\ timer' = NoTimer
  /\ put' = "none"
  /\ UNCHANGED <<S3_TRANSFORMED_IMAGE_BUCKET, store>>

\* The next step is another request's.
Switch ==
  \E i \in 1..Len(others) :
    /\ others' = [others EXCEPT ![i] = Current]
    /\ viewer' = others[i].viewer
    /\ request' = others[i].request
    /\ pc' = others[i].pc
    /\ frame' = others[i].frame
    /\ timer' = others[i].timer
    /\ put' = others[i].put
    /\ response' = others[i].response
    /\ UNCHANGED <<S3_TRANSFORMED_IMAGE_BUCKET, store, nreq>>

\* resolve4 answers 8.8.8.8.
Resolve4Public ==
  /\ Resolve4
  /\ frame'.ipv4Addresses = <<IpText(Ipv4Public)>>

\* resolve6 answers 2001:db8::1.
Resolve6Public ==
  /\ Resolve6
  /\ frame'.allIps = <<IpText(Ipv4Public), IpText(Ipv6Public)>>

\* The upstream server answers 200 with Content-Type image/png.
FetchHeadersOfImage ==
  /\ FetchHeaders
  /\ pc' = "body"
  /\ frame'.contentType = image_png

\* The upstream server sends the image.
FetchBodyOfImage ==
  /\ FetchBody
  /\ frame'.originalImageBody = Buffer(MAX_FILE_SIZE, [kind |-> "image", orientation |-> FALSE])

\* toBuffer() gives the artifact it gave the other requests.
ToBufferOfImage ==
  /\ ToBuffer
  /\ \A i \in 1..Len(others) :
       others[i].frame.transformedImage # NoBuffer
         => frame'.transformedImage = others[i].frame.transformedImage

NextConcurrent ==
  \/ SimultaneousViewerRequests
  \/ Switch
  \/ Origin
  \/ HandlerStart
  \/ Resolve4Public
  \/ Resolve6Public
  \/ FetchHeadersOfImage
  \/ FetchBodyOfImage
  \/ Metadata
  \/ ToBufferOfImage
  \/ PutObjectOk

SpecConcurrent ==
  Init /\ [][NextConcurrent]_vars

(***************************************************************************)
(* The transformation on a wide set of operations and source types: one    *)
(* request at a time, from the viewer to the response, for a source that   *)
(* resolves to public addresses, is served as an image of one of several   *)
(* declared types, and whose artifact is within MAX_IMAGE_SIZE.            *)
(***************************************************************************)

\* The operations of the requests of SpecTransform: format, quality, width.
TransformParams ==
  { f \o q \o w :
      f \in {<<>>} \cup { <<Param(S_format, v)>> :
                            v \in {S_jpeg, S_webp, S_avif, S_png, S_gif, S_svg, S_auto} },
      q \in {<<>>, <<Param(S_quality, <<"8","0">>)>>},
      w \in {<<>>, <<Param(S_width, <<"3">>)>>} }

\* Operations of requests that name the path themselves: width=5000,
\* height=4001, width=0, height=7, quality=500,format=jpeg,
\* format=tiff,quality=80 and quality=80.
PathOperations ==
  { KeyValue(S_width, <<"5","0","0","0">>),
    KeyValue(S_height, <<"4","0","0","1">>),
    KeyValue(S_width, <<"0">>),
    KeyValue(S_height, <<"7">>),
    KeyValue(S_quality, <<"5","0","0">>) \o <<",">> \o KeyValue(S_format, S_jpeg),
    KeyValue(S_format, <<"t","i","f","f">>) \o <<",">> \o KeyValue(S_quality, <<"8","0">>),
    KeyValue(S_quality, <<"8","0">>) }

\* ?url=http://a&... for each of TransformParams, and /proxy/aHR0cDovL2E/...
\* for each of PathOperations.
TransformRequests ==
  { Query("GET", <<Param(S_url, Url_a)>> \o ps, <<>>) : ps \in TransformParams }
  \cup { Path("GET", ProxyPrefix \o EncodeUrl(Url_a) \o <<"/">> \o ops) : ops \in PathOperations }

\* Response heads of an upstream server that serves an image: 200 with
\* Content-Type image/png, image/jpeg, image/svg+xml or
\* image/svg+xml; charset=utf-8, without Content-Length.
SourceHeads ==
  { [ok |-> TRUE, status |-> <<"2","0","0">>, statusText |-> <<"O","K">>,
     contentType |-> <<ct>>, contentLength |-> <<>>] :
      ct \in { image_png, image_jpeg, image_svg_xml,
               image_svg_xml \o <<";"," ","c","h","a","r","s","e","t","=","u","t","f","-","8">> } }

\* A viewer sends one of the requests; it passes the viewer-request
\* function.
TransformViewerRequest ==
  /\ pc = "viewer"
  /\ \E req \in TransformRequests :
       /\ viewer' = [request |-> req, followed |-> FALSE]
       /\ Forward(UrlRewrite(req))
  /\ frame' = EmptyFrame
  /\ UNCHANGED <<others, S3_TRANSFORMED_IMAGE_BUCKET, store, nreq, timer, put>>

\* The upstream server answers with one of SourceHeads.
FetchSourceHeaders ==
  FetchHeadersFrom(SourceHeads)

\* The upstream server sends an image, with or without orientation
\* metadata.
FetchSourceBody ==
  /\ FetchBody
  /\ frame'.originalImageBody.data.kind = "image"
  /\ pc' = "metadata"

\* toBuffer() gives an artifact of MAX_IMAGE_SIZE bytes.
ToBufferWithinLimit ==
  /\ ToBuffer
  /\ ~frame'.imageTooBig

NextTransform ==
  \/ TransformViewerRequest
  \/ Origin
  \/ HandlerStart
  \/ Resolve4Public
  \/ Resolve6Public
  \/ FetchSourceHeaders
  \/ FetchSourceBody
  \/ Metadata
  \/ ToBufferWithinLimit
  \/ PutObjectOk

SpecTransform ==
  Init /\ [][NextTransform]_vars

(***************************************************************************)
(* Properties                                                              *)
(***************************************************************************)

\* C1: with the bucket configured, an artifact above MAX_IMAGE_SIZE and a
\* PutObject that resolved, the handler's response is a 307 whose Location
\* is '/proxy/' + encodedUrl + '/' + operationsPrefix and whose
\* Cache-Control is 'no-store', and the bucket then holds the artifact under
\* encodedUrl + '/' + operationsPrefix.
C1_OversizeStoredIsRedirected ==
  (pc = "done" /\ S3_TRANSFORMED_IMAGE_BUCKET /\ frame.imageTooBig /\ put = "ok")
    => /\ response.from = "lambda"
       /\ response.statusCode = 307
       /\ response.headers.Location =
            <<"/","p","r","o","x","y","/">> \o frame.encodedUrl \o <<"/">>
              \o frame.operationsPrefix
       /\ response.headers.CacheControl = "no-store"
       /\ \E o \in store :
            /\ o.Key = frame.encodedUrl \o <<"/">> \o frame.operationsPrefix
            /\ o.Body = frame.transformedImage

\* A 307 has been returned for an oversize artifact that was stored, for a
\* request with operations.
C1_Witness ==
  /\ pc = "done"
  /\ put = "ok"
  /\ frame.imageTooBig
  /\ response.statusCode = 307
  /\ frame.operationsPrefix # original

\* C2: a GET of the Location of a 307 is answered 200 by the bucket: the
\* origin group finds the object the redirecting invocation stored, the
\* handler is not invoked again and no second redirect is given.
C2_RedirectTargetServedFromStore ==
  (viewer.followed /\ pc # "origin")
    => /\ pc = "done"
       /\ response.from = "s3"
       /\ response.statusCode = 200

\* C3: every invocation of the handler ends with a response the handler
\* built, and a failure of a codec call (metadata, resize, rotate, toFormat,
\* toBuffer) on bytes the codec cannot read or decode gives 500.
C3_EveryFailureIsStructured ==
  (pc = "done" /\ response.from \notin {"edge-function", "s3"})
    => /\ response.from = "lambda"
       /\ frame.originalImageBody.data.kind \in {"empty", "unreadable", "damaged"}
            => response.statusCode = 500

\* C4: when the name resolves to an address of 10/8, 172.16/12, 192.168/16,
\* 127/8, 169.254/16, 0/8, 224/4, 240/4, or of the IPv6 loopback,
\* unspecified, link-local (fe80::/10), unique-local (fc00::/7) or multicast
\* (ff00::/8) ranges, no fetch is issued and the response is 403.
C4_NoFetchOfBlockedAddress ==
  LET InBlock(a) ==
        IF Len(a) = 4
        THEN \/ a[1] \in {10, 127, 0}
             \/ a[1] = 172 /\ a[2] \in 16..31
             \/ a[1] = 192 /\ a[2] = 168
             \/ a[1] = 169 /\ a[2] = 254
             \/ a[1] \in 224..255
        ELSE \/ a \in {<<0, 0, 0, 0, 0, 0, 0, 1>>, <<0, 0, 0, 0, 0, 0, 0, 0>>}
             \/ a[1] \in 65152..65215
             \/ a[1] \in 64512..65023
             \/ a[1] \in 65280..65535
      Resolved(a) == \E i \in 1..Len(frame.allIps) : frame.allIps[i] = IpText(a)
  IN  \A a \in Ipv4Pool \cup Ipv6Pool :
        (InBlock(a) /\ Resolved(a))
          => /\ pc = "done"
             /\ response.statusCode = 403
             /\ ~timer.armed

\* C5: no transfer of fetchExternalImage, before the response head or during
\* the body, is in flight for longer than FETCH_TIMEOUT.
C5_NoTransferPastTimeout ==
  pc \in {"headers", "body"} => timer.elapsed <= FETCH_TIMEOUT

\* C6: the bucket holds at most one object per source URL and set of
\* operations: requests for the same URL with the same operations, whatever
\* order their path names them in, are stored under the same key.
C6_OneObjectPerUrlAndOperations ==
  LET Operations(o) ==
        LET entries == Split(o.Metadata.transformations, ",")
        IN  {entries[i] : i \in 1..Len(entries)}
  IN  \A o1, o2 \in store :
        (/\ o1.Metadata.original_url_base64 = o2.Metadata.original_url_base64
         /\ Operations(o1) = Operations(o2))
          => o1.Key = o2.Key

\* C7: with the bucket configured, an artifact within MAX_IMAGE_SIZE and a
\* PutObject that rejected, the response is the 200 with the artifact as
\* body, its content type and the configured Cache-Control.
C7_FailedUploadStillInline ==
  (pc = "done" /\ S3_TRANSFORMED_IMAGE_BUCKET /\ put = "failed" /\ ~frame.imageTooBig)
    => /\ response.from = "lambda"
       /\ response.statusCode = 200
       /\ response.body = frame.transformedImage
       /\ response.headers.ContentType = frame.contentType
       /\ response.headers.CacheControl = TRANSFORMED_IMAGE_CACHE_TTL

\* The upload of an artifact within the limit has failed and the handler
\* has returned.
C7_Witness ==
  /\ pc = "done"
  /\ S3_TRANSFORMED_IMAGE_BUCKET
  /\ put = "failed"
  /\ ~frame.imageTooBig
  /\ response.statusCode = 200

\* C8: an artifact above MAX_IMAGE_SIZE that this invocation did not store
\* (the PutObject rejected, or there is no bucket) is answered 413, and no
\* 200 of the handler carries a body above MAX_IMAGE_SIZE.
C8_OversizeNotStoredIs413 ==
  /\ (pc = "done" /\ frame.imageTooBig /\ put # "ok")
       => (response.from = "lambda" /\ response.statusCode = 413)
  /\ (response.from = "lambda" /\ response.statusCode = 200)
       => response.body.byteLength <= MAX_IMAGE_SIZE

\* The upload of an oversize artifact has failed and the handler has
\* answered 413.
C8_Witness ==
  /\ pc = "done"
  /\ put = "failed"
  /\ frame.transformedImage.byteLength > MAX_IMAGE_SIZE
  /\ response.statusCode = 413

\* C9, as stated: without a bucket every invocation whose transformation
\* succeeds ends in the 200 with the artifact inline, whatever the
\* artifact's size, and no PutObject is issued.
C9_NoBucketAlwaysInline ==
  ~S3_TRANSFORMED_IMAGE_BUCKET
    => /\ put = "none"
       /\ store = {}
       /\ (pc = "done" /\ frame.transformedImage # NoBuffer)
            => /\ response.statusCode = 200
               /\ response.body = frame.transformedImage

\* C9, amended: without a bucket no PutObject is issued, and an invocation
\* whose transformation succeeds ends in the 200 with the artifact inline
\* when the artifact is within MAX_IMAGE_SIZE and in 413 when it is above.
C9_NoBucketInlineOr413 ==
  ~S3_TRANSFORMED_IMAGE_BUCKET
    => /\ put = "none"
       /\ store = {}
       /\ (pc = "done" /\ frame.transformedImage # NoBuffer)
            => IF frame.transformedImage.byteLength > MAX_IMAGE_SIZE
               THEN response.from = "lambda" /\ response.statusCode = 413
               ELSE /\ response.from = "lambda"
                    /\ response.statusCode = 200
                    /\ response.body = frame.transformedImage

\* Without a bucket an oversize artifact has been answered 413.
C9_Witness ==
  /\ ~S3_TRANSFORMED_IMAGE_BUCKET
  /\ pc = "done"
  /\ frame.transformedImage.byteLength > MAX_IMAGE_SIZE
  /\ response.statusCode = 413

C11_SamePathInAnyOrder ==
  pc # "viewer" =>
    LET q == viewer.request.querystring
        Reordered(f) == [viewer.request EXCEPT !.querystring = [i \in 1..Len(q) |-> q[f[i]]]]
        Rank(entry) == CHOOSE r \in 1..4 :
                         <<S_format, S_quality, S_width, S_height>>[r] = Head(Split(entry, "="))
        entries == Split(SubSeq(request.uri, Len(request.uri) - Len(OperationsSuffix(
                           NormalizeOperations(q, viewer.request.headers, 1, NoOperations))) + 1,
                           Len(request.uri)), ",")
    IN  /\ \A f \in Permutations(1..Len(q)) :
             IF response.from = "edge-function"
             THEN /\ UrlRewrite(Reordered(f)).kind = "response"
                  /\ UrlRewrite(Reordered(f)).response.body = response.body
             ELSE /\ UrlRewrite(Reordered(f)).kind = "request"
                  /\ UrlRewrite(Reordered(f)).request.uri = request.uri
        /\ (response.from # "edge-function" /\ request.uri # viewer.request.uri
              /\ entries # <<original>>)
             => \A i, j \in 1..Len(entries) : i < j => Rank(entries[i]) < Rank(entries[j])

\* C12: for every url value the edge function accepts, the handler decodes
\* the token of the rewritten path to exactly that value.
C12_DecodedIsSourceUrl ==
  ( /\ pc \notin {"viewer", "origin", "lambda"}
    /\ response.from # "edge-function"
    /\ ~StartsWith(viewer.request.uri, ProxyPrefix) )
    => /\ frame.encodedUrl = EncodeUrl(QueryValue(viewer.request.querystring, S_url))
       /\ frame.imageUrl = QueryValue(viewer.request.querystring, S_url)

\* C13: a failure of the fetch is answered by the statement that threw it:
\* the abort of the timer with 504, a declared or received length above
\* MAX_FILE_SIZE with 413, an absent or disallowed Content-Type with 415, a
\* response that is not ok or a rejected transfer with 502.
C13_OneStatusPerFetchFailure ==
  (pc = "done" /\ frame.thrown # "none") =>
    response.statusCode =
      CASE frame.thrown = "abort"                            -> 504
        [] frame.thrown \in {"content-length", "byteLength"} -> 413
        [] frame.thrown = "content-type"                     -> 415
        [] frame.thrown \in {"ok", "rejected"}               -> 502

\* C14: in the handler, a token that does not decode to a well-formed
\* http/https URL is answered with 400, and 403 is returned only when
\* validateUrl found a disallowed protocol or a resolved address of a
\* blocked range.
C14_MalformedIs400Not403 ==
  LET imageUrl   == DecodeUrl(frame.encodedUrl)
      wellFormed == MatchesHttpUrl(imageUrl) /\ ParseUrl(imageUrl).ok
  IN  (pc = "done" /\ response.from = "lambda" /\ frame.encodedUrl # <<>>) =>
        /\ ~wellFormed => response.statusCode = 400
        /\ response.statusCode = 403 =>
              /\ wellFormed
              /\ \/ ParseUrl(imageUrl).protocol \notin {S_http, S_https}
                 \/ AnyBlocked(frame.allIps)

\* C15: when the sharp instance has been made from the fetched bytes, their
\* length is at most MAX_FILE_SIZE and the media type of the response's
\* Content-Type (the text before any ';', in lower case) is one of
\* VALID_IMAGE_TYPES.
C15_TransformerInputIsAllowedImage ==
  pc = "metadata" =>
    /\ frame.originalImageBody.byteLength <= MAX_FILE_SIZE
    /\ \E i \in 1..Len(VALID_IMAGE_TYPES) :
         VALID_IMAGE_TYPES[i] = toLowerCase(TakeUntilIn(frame.contentType, {";", " "}))

\* C17 as stated: a request whose path is not /proxy/... is answered 400 by
\* the edge function exactly when its url is missing or empty or does not
\* begin with http:// or https://, and is rewritten otherwise.
C17_ErrorIffNoSchemePrefix ==
  (pc # "viewer" /\ ~StartsWith(viewer.request.uri, ProxyPrefix)) =>
    LET url == QueryValue(viewer.request.querystring, S_url)
    IN  (response.from = "edge-function")
          <=> \/ url = <<>>
              \/ /\ ~StartsWith(url, <<"h","t","t","p",":","/","/">>)
                 /\ ~StartsWith(url, <<"h","t","t","p","s",":","/","/">>)

\* C17: a request whose path is not /proxy/... is answered 400 'Missing
\* required parameter: url' when its url is missing or empty, 400 'Invalid
\* URL format...' when the url is not http:// or https:// in any letter
\* case followed by at least one character, and is otherwise rewritten to
\* /proxy/{token}/{operations} with an empty query string.
C17_ErrorIffNotHttpUrl ==
  (pc # "viewer" /\ ~StartsWith(viewer.request.uri, ProxyPrefix)) =>
    LET url      == QueryValue(viewer.request.querystring, S_url)
        lower    == toLowerCase(url)
        matches  == \E prefix \in { <<"h","t","t","p",":","/","/">>,
                                     <<"h","t","t","p","s",":","/","/">> } :
                      StartsWith(lower, prefix) /\ Len(lower) > Len(prefix)
        segments == FilterNonEmpty(Split(request.uri, "/"))
    IN  IF url = <<>>
        THEN /\ response.from = "edge-function"
             /\ response.statusCode = 400
             /\ response.body = M_MissingUrl
        ELSE IF ~matches
        THEN /\ response.from = "edge-function"
             /\ response.statusCode = 400
             /\ response.body = M_InvalidUrlFormat
        ELSE /\ response.from # "edge-function"
             /\ StartsWith(request.uri, ProxyPrefix)
             /\ Len(segments) = 3
             /\ segments[2] = EncodeUrl(url)
             /\ request.querystring = <<>>

\* The edge function has answered 400 'Invalid URL format...' to url=http://
C17_Witness ==
  /\ pc = "done"
  /\ QueryValue(viewer.request.querystring, S_url) = <<"h","t","t","p",":","/","/">>
  /\ response.from = "edge-function"
  /\ response.statusCode = 400
  /\ response.body = M_InvalidUrlFormat

\* C18: for a request with a valid url and one width (height) entry, the
\* rewritten path has the operation width=n (height=n) exactly when the
\* entry's value is the decimal text of an integer n with 0 < n <= 4000,
\* and n is written in decimal; the request is rewritten whatever the value.
C18_SizeKeptIffIntegerInRange ==
  ( /\ pc # "viewer"
    /\ ~StartsWith(viewer.request.uri, ProxyPrefix)
    /\ MatchesHttpUrl(QueryValue(viewer.request.querystring, S_url)) )
    => /\ response.from # "edge-function"
       /\ \A k \in {S_width, S_height} :
            LET q        == viewer.request.querystring
                hits     == {i \in 1..Len(q) : toLowerCase(q[i].key) = k}
                value    == q[CHOOSE i \in hits : TRUE].value
                integer  == value # <<>> /\ \A j \in 1..Len(value) : value[j] \in Digits
                segments == FilterNonEmpty(Split(request.uri, "/"))
                entries  == Split(segments[Len(segments)], ",")
                written  == {entries[j] : j \in {j \in 1..Len(entries) : StartsWith(entries[j], k \o <<"=">>)}}
            IN  Cardinality(hits) = 1 =>
                  IF integer /\ DigitsValue(value) > 0 /\ DigitsValue(value) <= 4000
                  THEN written = {KeyValue(k, NatToString(DigitsValue(value)))}
                  ELSE written = {}

\* C19: for a request with a valid url and one quality entry, the rewritten
\* path has the operation quality=min(n, 100) when the entry's value is the
\* decimal text of an integer n > 0, and no quality operation otherwise; a
\* quality that is written is in 1..100.
C19_QualityClampedOrDropped ==
  ( /\ pc # "viewer"
    /\ ~StartsWith(viewer.request.uri, ProxyPrefix)
    /\ MatchesHttpUrl(QueryValue(viewer.request.querystring, S_url)) )
    => LET q        == viewer.request.querystring
           hits     == {i \in 1..Len(q) : toLowerCase(q[i].key) = S_quality}
           value    == q[CHOOSE i \in hits : TRUE].value
           integer  == value # <<>> /\ \A j \in 1..Len(value) : value[j] \in Digits
           n        == DigitsValue(value)
           segments == FilterNonEmpty(Split(request.uri, "/"))
           entries  == Split(segments[Len(segments)], ",")
           written  == {entries[j] : j \in {j \in 1..Len(entries) :
                                              StartsWith(entries[j], S_quality \o <<"=">>)}}
       IN  /\ Cardinality(hits) = 1 =>
                IF integer /\ n > 0
                THEN written = {KeyValue(S_quality, NatToString(IF n > 100 THEN 100 ELSE n))}
                ELSE written = {}
           /\ written \subseteq {KeyValue(S_quality, NatToString(m)) : m \in 1..100}

\* C20: for a request with a valid url and one format entry, format=auto is
\* rewritten to format=avif when the Accept header mentions avif, else to
\* format=webp when it mentions webp, else (also without Accept header) to
\* format=jpeg; the path never has format=auto; a value outside auto, jpeg,
\* webp, avif, png, svg, gif leaves no format operation.
C20_AutoResolvedFromAccept ==
  ( /\ pc # "viewer"
    /\ ~StartsWith(viewer.request.uri, ProxyPrefix)
    /\ MatchesHttpUrl(QueryValue(viewer.request.querystring, S_url)) )
    => LET q         == viewer.request.querystring
           accept    == viewer.request.headers
           mentions(w) == accept # <<>> /\ Includes(accept[1], w)
           hits      == {i \in 1..Len(q) : toLowerCase(q[i].key) = S_format}
           value     == toLowerCase(q[CHOOSE i \in hits : TRUE].value)
           segments  == FilterNonEmpty(Split(request.uri, "/"))
           entries   == Split(segments[Len(segments)], ",")
           written   == {entries[j] : j \in {j \in 1..Len(entries) :
                                               StartsWith(entries[j], S_format \o <<"=">>)}}
       IN  /\ KeyValue(S_format, S_auto) \notin written
           /\ Cardinality(hits) = 1 =>
                IF value = S_auto
                THEN written = { KeyValue(S_format,
                                   IF mentions(S_avif) THEN S_avif
                                   ELSE IF mentions(S_webp) THEN S_webp
                                   ELSE S_jpeg) }
                ELSE IF value \notin {S_jpeg, S_webp, S_avif, S_png, S_svg, S_gif}
                THEN written = {}
                ELSE written = {KeyValue(S_format, value)}

\* ?url=http://a&format=auto&width=3 with Accept: image/webp has been
\* rewritten to /proxy/aHR0cDovL2E/format=webp,width=3.
C20_Witness ==
  /\ pc = "origin"
  /\ viewer.request.querystring
       = <<Param(S_url, Url_a), Param(S_format, S_auto), Param(S_width, <<"3">>)>>
  /\ viewer.request.headers = << image_webp >>
  /\ request.uri = ProxyPrefix \o EncodeUrl(Url_a) \o <<"/">>
                     \o KeyValue(S_format, S_webp) \o <<",">> \o KeyValue(S_width, <<"3">>)

\* C16: of requests in flight at the same time for one image, each gets
\* the response it gets alone (the artifact inline, or the 307 to its path
\* when it is above MAX_IMAGE_SIZE and there is a bucket, 413 when there is
\* none), whatever the order of the steps; the bucket never has two objects
\* of one key, and when all are answered it has exactly the one object of
\* the requests' key, whose body is the artifact.
C16_ConcurrentAsAlone ==
  LET invocations == <<Current>> \o others
      Answered(c) == c.pc = "done"
      Alone(c) ==
        IF ~c.frame.imageTooBig
        THEN /\ c.response.statusCode = 200
             /\ c.response.body = c.frame.transformedImage
             /\ c.response.headers.ContentType = image_png
        ELSE IF S3_TRANSFORMED_IMAGE_BUCKET
        THEN /\ c.response.statusCode = 307
             /\ c.response.headers.Location = c.request.uri
        ELSE c.response.statusCode = 413
  IN  others # <<>> =>
        /\ \A i \in 1..Len(invocations) :
             Answered(invocations[i]) =>
               /\ invocations[i].response.from = "lambda"
               /\ invocations[i].frame.transformedImage.data.kind = "artifact"
               /\ Alone(invocations[i])
        /\ \A o1, o2 \in store : o1.Key = o2.Key => o1 = o2
        /\ (S3_TRANSFORMED_IMAGE_BUCKET /\ \A i \in 1..Len(invocations) : Answered(invocations[i]))
             => /\ Cardinality(store) = 1
                /\ \A o \in store, i \in 1..Len(invocations) :
                     /\ o.Key = invocations[i].frame.encodedUrl \o <<"/">>
                                  \o invocations[i].frame.operationsPrefix
                     /\ o.Body = invocations[i].frame.transformedImage

\* With a bucket, two requests sent at the same time have both been
\* answered 307, after each of them put the oversize artifact.
C16_Witness ==
  /\ S3_TRANSFORMED_IMAGE_BUCKET
  /\ others # <<>>
  /\ pc = "done" /\ put = "ok" /\ response.statusCode = 307
  /\ \A i \in 1..Len(others) :
       /\ others[i].pc = "done"
       /\ others[i].put = "ok"
       /\ others[i].response.statusCode = 307
  /\ Cardinality(store) = 1

\* C21: the viewer-request function forwards a request whose path begins
\* with /proxy/ as it is (uri, query string, headers), and it forwards every
\* request it has produced as it is.
C21_RewriteIsIdempotent ==
  (pc # "viewer" /\ response.from # "edge-function") =>
    /\ StartsWith(viewer.request.uri, ProxyPrefix) => request = viewer.request
    /\ StartsWith(request.uri, ProxyPrefix)
    /\ UrlRewrite(request) = [kind |-> "request", request |-> request]

\* /proxy/aHR0cDovL2E/width=3?url=http://a&width=5 with an Accept header has
\* been forwarded.
C21_Witness ==
  /\ pc = "origin"
  /\ StartsWith(viewer.request.uri, ProxyPrefix)
  /\ viewer.request.querystring = <<Param(S_url, Url_a), Param(S_width, <<"5">>)>>
  /\ viewer.request.headers # <<>>
  /\ request = viewer.request

\* C22: every response with status 400, 403, 413, 415, 500, 502 or 504, of
\* the edge function or of the handler, has the headers Content-Type
\* application/json and Cache-Control no-store and the body {error: message}.
C22_ErrorsAreJsonNoStore ==
  (pc = "done" /\ response.statusCode \in {400, 403, 413, 415, 500, 502, 504}) =>
    /\ "headers" \in DOMAIN response
    /\ response.headers = [ContentType |-> application_json, CacheControl |-> no_store]
    /\ "body" \in DOMAIN response
    /\ DOMAIN response.body = {"error"}

\* C23: when resolve6 has settled, a lookup that gave no address (it failed
\* or the name has none of the family) rejects nothing: with no address at
\* all validateUrl returns and the fetch is started, and with the addresses
\* of one family only, 10.0.0.1 or ::1 among them still gives 403 and no
\* fetch.
C23_FailedLookupIsNoRejection ==
  [][ (pc = "resolve6" /\ pc' # "resolve6") =>
        LET blocked == \E i \in 1..Len(frame'.allIps) :
                         frame'.allIps[i] \in {IpText(<<10, 0, 0, 1>>),
                                               IpText(<<0, 0, 0, 0, 0, 0, 0, 1>>)}
            oneFamily == \/ frame.ipv4Addresses = <<>>
                         \/ frame'.allIps = frame.ipv4Addresses
        IN  /\ frame'.allIps = <<>> => (pc' = "headers" /\ timer'.armed)
            /\ (oneFamily /\ blocked) =>
                  (pc' = "done" /\ response'.statusCode = 403 /\ ~timer'.armed)
            /\ (oneFamily /\ frame'.allIps \in {<<IpText(Ipv4Public)>>, <<IpText(Ipv6Public)>>})
                  => (pc' = "headers" /\ timer'.armed)
    ]_vars

\* Both lookups gave no address and the fetch has been started.
C23_Witness ==
  /\ pc = "headers"
  /\ frame.allIps = <<>>
  /\ timer.armed
  /\ timer.elapsed = 0
  /\ response = NoResponse

\* C24: without a format operation the Content-Type of the response and of
\* the stored object is the type the source declared, except that a source
\* declared as image/svg+xml, with or without media-type parameters, gives
\* image/png; with a format operation (jpeg, webp, avif, png, gif) it is the
\* media type of that format.
C24_ContentTypeMirrorsSource ==
  [][ /\ (pc = "metadata" /\ pc' = "toBuffer") =>
           LET format == OperationsGet(frame.operationsPrefix, S_format)
           IN  /\ format = <<>> =>
                    frame'.contentType =
                      IF StartsWith(frame.contentType, image_svg_xml)
                      THEN image_png ELSE frame.contentType
               /\ format \in {S_jpeg, S_webp, S_avif, S_png, S_gif} =>
                    frame'.contentType = <<"i","m","a","g","e","/">> \o format
      /\ (pc = "toBuffer" /\ pc' = "done" /\ response'.statusCode = 200) =>
           response'.headers.ContentType = frame.contentType
      /\ (pc = "put" /\ pc' = "done") =>
           /\ response'.headers.ContentType = frame.contentType
           /\ \E o \in store' : /\ o.Key = CacheKey(frame.encodedUrl, frame.operationsPrefix)
                                /\ o.ContentType = frame.contentType
    ]_vars

\* C25: toFormat is given a quality exactly when the operations have a
\* quality and a format that is one of the lossy formats jpeg, webp, avif;
\* with format png or gif a quality is left out and nothing throws.
C25_QualityOnlyForLossyFormats ==
  [][ (pc = "metadata" /\ pc' \in {"toBuffer", "done"}) =>
        LET format  == OperationsGet(frame.operationsPrefix, S_format)
            quality == OperationsGet(frame.operationsPrefix, S_quality)
            passed  == \E i \in 1..Len(frame'.calls) :
                         /\ frame'.calls[i].call = "toFormat"
                         /\ frame'.calls[i].quality # 0
        IN  /\ passed <=> (quality # <<>> /\ format \in {S_jpeg, S_webp, S_avif})
            /\ format \in {S_png, S_gif} => pc' = "toBuffer"
    ]_vars

C27_BadMethodOrPathIs400 ==
  [][ pc = "lambda" =>
        LET parts  == Split(request.uri, "/")
            ofForm == /\ Len(parts) \in {3, 4}
                      /\ parts[1] = <<>>
                      /\ parts[2] = proxy
                      /\ parts[3] # <<>>
        IN  /\ (request.method # "GET" \/ ~ofForm) =>
                 /\ pc' = "done"
                 /\ response'.statusCode = 400
                 /\ UNCHANGED <<store, timer, put>>
            /\ pc' = "resolve4" =>
                 /\ request.method = "GET"
                 /\ ofForm
                 /\ MatchesHttpUrl(DecodeUrl(parts[3]))
    ]_vars

\* C28: for a GET that the viewer-request function rewrites, the handler
\* reads from the new path the token the function computed, which has no
\* '/', '+' or '=', and operations whose width, height, format and quality
\* are those the function normalized (none of them for 'original'); the
\* cache key is the new path without its leading /proxy/.
C28_HandlerReadsWhatRewriteWrote ==
  (/\ pc \in {"resolve4", "done"}
   /\ response.from \notin {"edge-function", "s3"}
   /\ request.method = "GET"
   /\ ~StartsWith(viewer.request.uri, ProxyPrefix)) =>
     LET ops == NormalizeOperations(viewer.request.querystring, viewer.request.headers,
                                    1, NoOperations)
     IN  /\ frame.encodedUrl = EncodeUrl(QueryValue(viewer.request.querystring, S_url))
         /\ \A i \in 1..Len(frame.encodedUrl) : frame.encodedUrl[i] \notin {"/", "+", "="}
         /\ \A k \in DOMAIN ops : OperationsGet(frame.operationsPrefix, k) = ops[k]
         /\ ops = NoOperations <=> frame.operationsPrefix = original
         /\ CacheKey(frame.encodedUrl, frame.operationsPrefix)
              = SubSeq(request.uri, Len(ProxyPrefix) + 1, Len(request.uri))

\* A rewritten request whose token has a '_' and a '-' in place of the '/'
\* and '+' of base64 has been parsed by the handler.
C28_Witness ==
  /\ pc = "resolve4"
  /\ ~StartsWith(viewer.request.uri, ProxyPrefix)
  /\ Includes(frame.encodedUrl, <<"_">>)
  /\ request.uri = ProxyPrefix \o frame.encodedUrl \o <<"/">> \o frame.operationsPrefix

\* C29: whatever request passed the viewer-request function, every resize
\* call has a width and a height of at most 4000, positive when given, and
\* every quality given to toFormat is at most 100.
C29_OperationsWithinBounds ==
  \A i \in 1..Len(frame.calls) :
    /\ frame.calls[i].call = "resize" =>
         /\ frame.calls[i].ok
         /\ frame.calls[i].width <= 4000
         /\ frame.calls[i].height <= 4000
    /\ frame.calls[i].call = "toFormat" => frame.calls[i].quality <= 100

\* C30: a request that the viewer-request function rewrote to a path with a
\* format (jpeg, webp, avif, png, gif or svg) is answered, for a source that
\* is an image, with the media type of that format as Content-Type, and
\* with a bucket the object stored under its key has that Content-Type.
C30_EmittedFormatsAreServed ==
  (/\ pc = "done"
   /\ ~StartsWith(viewer.request.uri, ProxyPrefix)
   /\ OperationsGet(frame.operationsPrefix, S_format) # <<>>) =>
     LET format == OperationsGet(frame.operationsPrefix, S_format)
         media  == IF format = S_svg THEN image_svg_xml
                   ELSE <<"i","m","a","g","e","/">> \o format
     IN  /\ frame.contentType = media
         /\ response.headers.ContentType = media
         /\ S3_TRANSFORMED_IMAGE_BUCKET =>
              \E o \in store : /\ o.Key = CacheKey(frame.encodedUrl, frame.operationsPrefix)
                               /\ o.ContentType = media

====
